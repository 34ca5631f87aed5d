------------------------- MODULE CollectorScheduler -------------------------
(***************************************************************************)
(* The REGTECH collection jobs of the collector service                    *)
(* (collector/scheduler): the one-time backfill that walks from today to   *)
(* BackfillDays ago in windows of WindowDays and checkpoints each window   *)
(* in the database, the daily collection, and the collections an operator  *)
(* forces over HTTP.  One thread (Sched) runs the scheduled jobs one after *)
(* another; each HTTP request runs in a thread of its own (Http).  All of  *)
(* them drive the one global RegtechCollector, so they share its login     *)
(* session, and all of them write to the same table.                       *)
(*                                                                         *)
(* Dates are integers, day 0 being the day the service is installed.  The  *)
(* rows the portal lists for a day are abstracted to the day itself.       *)
(***************************************************************************)
EXTENDS Integers, FiniteSets

CONSTANTS
    Http,              \* threads of the health server (cheroot workers)
    Sched,             \* the scheduler thread
    BackfillDays,      \* BACKFILL_DAYS, 90 in the code
    WindowDays,        \* BACKFILL_WINDOW_DAYS, 7 in the code
    Published,         \* the days for which the portal lists rows
    CredentialStates,  \* what the operator may set the credentials to
    Faults,            \* the kinds of mishap that may happen
    MaxMishaps,        \* bound: mishaps of a behaviour
    MaxRequests,       \* bound: accepted HTTP collections of a behaviour
    MaxDay             \* bound: the last day of a behaviour

ASSUME SchedAssumption == Sched \notin Http
ASSUME SpanAssumption == BackfillDays \in Nat /\ WindowDays \in Nat \ {0}
ASSUME PublishedAssumption == Published \subseteq Int
ASSUME CredentialAssumption ==
    CredentialStates \subseteq {"missing", "disabled", "blank", "enabled"}
ASSUME BoundAssumption ==
    /\ MaxMishaps \in Nat
    /\ MaxRequests \in Nat
    /\ MaxDay \in Nat

VARIABLES
    (* PostgreSQL *)
    initial,      \* collection_status.config of REGTECH_INITIAL
    stored,       \* the published days whose rows are in blacklist_ips
    foreignRows,  \* does blacklist_ips hold rows no collection stored
    creds,        \* the REGTECH row of the credential store
    (* memory of the collector process *)
    up,           \* is the process running
    active,       \* _active_collections
    session,      \* authenticated /\ _is_jwt_valid() of the shared collector
    remembered,   \* _last_credentials is set
    retryWait,    \* time.monotonic() < _initial_retry_at
    initialJob,   \* the initial job is still registered
    dailyDue,     \* 02:00 has passed and the daily job has not run yet
    pc,           \* where each thread is
    kind,         \* the collection each thread runs, and its locals:
    end,          \*   window_end (or end_date)
    oldest,       \*   oldest (or start_date)
    batch,        \*   collected_data
    (* environment *)
    today,
    mishaps,
    requests,
    (* history, read by properties only *)
    swallowed,    \* days a backfill window lost without raising
    startDay,     \* the newest day of the first backfill run
    floor,        \* the oldest day of the backfill run that completed
    dailyOutcome  \* how the last daily run ended

database == <<initial, stored, foreignRows, creds>>
run      == <<kind, end, oldest, batch>>
memory   == <<up, active, session, remembered, retryWait, initialJob,
              dailyDue, pc, run>>
history  == <<swallowed, startDay, floor, dailyOutcome>>
vars     == <<database, memory, today, mishaps, requests, history>>

Proc == Http \cup {Sched}

Finished == {"complete", "skipped"}

Locations == {"idle", "admit", "credentials", "authenticate", "mark",
              "collect", "save", "checkpoint", "complete"}

(* A collection admitted by force_collection, until its finally clause; a   *)
(* daily run is not admitted.                                               *)
Forced(p) == kind[p] \in {"backfill", "forced"}

FlagsOK ==
    /\ foreignRows \in BOOLEAN
    /\ up \in BOOLEAN
    /\ session \in BOOLEAN
    /\ remembered \in BOOLEAN
    /\ retryWait \in BOOLEAN
    /\ initialJob \in BOOLEAN
    /\ dailyDue \in BOOLEAN

ThreadsOK ==
    /\ pc \in [Proc -> Locations]
    /\ kind \in [Proc -> {"none", "backfill", "forced", "daily"}]
    /\ end \in [Proc -> Int]
    /\ oldest \in [Proc -> Int]
    /\ batch \in [Proc -> SUBSET Published]

DataOK ==
    /\ initial \in [state : {"none", "in_progress", "complete", "skipped"},
                    next : Int]
    /\ stored \subseteq Published
    /\ creds \in {"missing", "disabled", "blank", "enabled"}
    /\ active \subseteq {"REGTECH"}
    /\ today \in Nat
    /\ mishaps \in Nat
    /\ requests \in Nat
    /\ swallowed \subseteq Published
    /\ startDay \in Int
    /\ floor \in Int
    /\ dailyOutcome \in {"none", "collected", "unauthenticated", "failed"}

TypeOK == FlagsOK /\ ThreadsOK /\ DataOK

Init ==
    /\ initial = [state |-> "none", next |-> 0]
    /\ stored = {}
    /\ foreignRows = FALSE
    /\ creds \in CredentialStates
    /\ up = TRUE
    /\ active = {}
    /\ session = FALSE
    /\ remembered = FALSE
    /\ retryWait = FALSE
    /\ initialJob = TRUE
    /\ dailyDue = FALSE
    /\ pc = [p \in Proc |-> "idle"]
    /\ kind = [p \in Proc |-> "none"]
    /\ end = [p \in Proc |-> 0]
    /\ oldest = [p \in Proc |-> 0]
    /\ batch = [p \in Proc |-> {}]
    /\ today = 0
    /\ mishaps = 0
    /\ requests = 0
    /\ swallowed = {}
    /\ startDay = 0
    /\ floor = 0
    /\ dailyOutcome = "none"

-----------------------------------------------------------------------------
(* Helpers *)

Mishap(fault) ==
    /\ fault \in Faults
    /\ mishaps < MaxMishaps
    /\ mishaps' = mishaps + 1

At(p, location) == up /\ pc[p] = location

GoTo(p, location) == pc' = [pc EXCEPT ![p] = location]

(* Mutant: the window takes in one day too many. *)
WindowStartTooEarly(p) ==
    IF kind[p] = "backfill" /\ end[p] - WindowDays > oldest[p]
    THEN end[p] - WindowDays
    ELSE oldest[p]

(* The first day of the window that ends on end[p]. *)
WindowStart(p) ==
    IF kind[p] = "backfill" /\ end[p] - (WindowDays - 1) > oldest[p]
    THEN end[p] - (WindowDays - 1)
    ELSE oldest[p]

(* Mutant: rows are attributed to days that have none. *)
WindowUnpublished(p) == WindowStart(p) .. end[p]

Window(p) == {d \in Published : WindowStart(p) <= d /\ d <= end[p]}

(* Mutant: the finally clause forgets the slot. *)
ReturnKeepsSlot(p, success) ==
    /\ pc' = [pc EXCEPT ![p] = "idle"]
    /\ kind' = [kind EXCEPT ![p] = "none"]
    /\ end' = [end EXCEPT ![p] = 0]
    /\ oldest' = [oldest EXCEPT ![p] = 0]
    /\ batch' = [batch EXCEPT ![p] = {}]
    /\ retryWait' = IF kind[p] = "backfill" /\ ~success THEN TRUE
                                                            ELSE retryWait
    /\ initialJob' = IF kind[p] = "backfill" /\ success THEN FALSE
                                                            ELSE initialJob
    /\ UNCHANGED active

(* Mutant: the initial job is cancelled after its first run, whatever the   *)
(* run returned.                                                            *)
ReturnCancelsJob(p, success) ==
    /\ pc' = [pc EXCEPT ![p] = "idle"]
    /\ kind' = [kind EXCEPT ![p] = "none"]
    /\ end' = [end EXCEPT ![p] = 0]
    /\ oldest' = [oldest EXCEPT ![p] = 0]
    /\ batch' = [batch EXCEPT ![p] = {}]
    /\ active' = IF Forced(p) THEN active \ {"REGTECH"} ELSE active
    /\ initialJob' = IF kind[p] = "backfill" THEN FALSE ELSE initialJob
    /\ UNCHANGED retryWait

(* A collection returns: a forced one leaves _active_collections, and the  *)
(* initial job acts on the result it gets back.                            *)
Return(p, success) ==
    /\ pc' = [pc EXCEPT ![p] = "idle"]
    /\ kind' = [kind EXCEPT ![p] = "none"]
    /\ end' = [end EXCEPT ![p] = 0]
    /\ oldest' = [oldest EXCEPT ![p] = 0]
    /\ batch' = [batch EXCEPT ![p] = {}]
    /\ active' = IF Forced(p) THEN active \ {"REGTECH"} ELSE active
    /\ retryWait' = IF kind[p] = "backfill" /\ ~success THEN TRUE
                                                            ELSE retryWait
    /\ initialJob' = IF kind[p] = "backfill" /\ success THEN FALSE
                                                            ELSE initialJob

-----------------------------------------------------------------------------
(* The initial job, run by the scheduler thread every 60 s *)

InitialJobDecides ==
    /\ At(Sched, "idle")
    /\ initialJob /\ ~retryWait
    /\ "REGTECH" \notin active
    /\ \/ /\ initial.state \in Finished
          /\ initialJob' = FALSE
          /\ UNCHANGED initial
       \/ /\ initial.state = "none"
          /\ stored # {} \/ foreignRows
          /\ initial' = [state |-> "skipped", next |-> 0]
          /\ initialJob' = FALSE
    /\ UNCHANGED <<stored, foreignRows, creds, up, active, session,
                   remembered, retryWait, dailyDue, pc, run, today, mishaps,
                   requests, history>>

InitialJobCannotRead ==
    /\ At(Sched, "idle")
    /\ initialJob /\ ~retryWait
    /\ "REGTECH" \notin active
    /\ Mishap("database")
    /\ retryWait' = TRUE
    /\ UNCHANGED <<database, up, active, session, remembered, initialJob,
                   dailyDue, pc, run, today, requests, history>>

(* Mutant: the job does not look at the recorded state. *)
InitialJobStartsBlindly ==
    /\ At(Sched, "idle")
    /\ initialJob /\ ~retryWait
    /\ "REGTECH" \notin active
    /\ creds \in {"enabled", "blank"}
    /\ GoTo(Sched, "admit")
    /\ UNCHANGED <<database, up, active, session, remembered, retryWait,
                   initialJob, dailyDue, run, today, mishaps, requests,
                   history>>

InitialJobStarts ==
    /\ At(Sched, "idle")
    /\ initialJob /\ ~retryWait
    /\ "REGTECH" \notin active
    /\ \/ initial.state = "in_progress"
       \/ initial.state = "none" /\ stored = {} /\ ~foreignRows
    /\ creds \in {"enabled", "blank"}
    /\ GoTo(Sched, "admit")
    /\ UNCHANGED <<database, up, active, session, remembered, retryWait,
                   initialJob, dailyDue, run, today, mishaps, requests,
                   history>>

(* Mutant: the check made without the lock is trusted. *)
AdmitBackfillUnchecked ==
    /\ At(Sched, "admit")
    /\ GoTo(Sched, "credentials")
    /\ active' = active \cup {"REGTECH"}
    /\ kind' = [kind EXCEPT ![Sched] = "backfill"]
    /\ UNCHANGED <<database, up, session, remembered, retryWait, initialJob,
                   dailyDue, end, oldest, batch, today, mishaps, requests,
                   history>>

(* The job looked at _active_collections without the lock, so a request may *)
(* have been admitted since: the backfill is then refused and waits.        *)
AdmitBackfill ==
    /\ At(Sched, "admit")
    /\ IF "REGTECH" \in active
       THEN /\ GoTo(Sched, "idle")
            /\ retryWait' = TRUE
            /\ UNCHANGED <<active, run>>
       ELSE /\ GoTo(Sched, "credentials")
            /\ active' = active \cup {"REGTECH"}
            /\ kind' = [kind EXCEPT ![Sched] = "backfill"]
            /\ UNCHANGED <<retryWait, end, oldest, batch>>
    /\ UNCHANGED <<database, up, session, remembered, initialJob, dailyDue,
                   today, mishaps, requests, history>>

(* POST /api/force-collection/REGTECH and POST /trigger.  A request that    *)
(* finds a collection in progress is refused and changes nothing.           *)
AdmitRequest(h) ==
    /\ At(h, "idle")
    /\ requests < MaxRequests
    /\ "REGTECH" \notin active
    /\ requests' = requests + 1
    /\ active' = active \cup {"REGTECH"}
    /\ GoTo(h, "credentials")
    /\ kind' = [kind EXCEPT ![h] = "forced"]
    /\ UNCHANGED <<database, up, session, remembered, retryWait, initialJob,
                   dailyDue, end, oldest, batch, today, mishaps, history>>

CheckCredentials(p) ==
    /\ At(p, "credentials")
    /\ IF creds = "enabled"
       THEN /\ GoTo(p, "authenticate")
            /\ UNCHANGED <<run, active, retryWait, initialJob>>
       ELSE Return(p, FALSE)
    /\ UNCHANGED <<database, up, session, remembered, dailyDue, today,
                   mishaps, requests, history>>

(* Mutant: the run resumes one day below the checkpoint. *)
SetSpanBelow(p) ==
    /\ end' = [end EXCEPT ![p] =
                  IF kind[p] = "backfill" /\ initial.state = "in_progress"
                  THEN initial.next - 1 ELSE today]
    /\ oldest' = [oldest EXCEPT ![p] = today - BackfillDays]

(* The span a run covers is fixed when it starts: a backfill resumes at the *)
(* checkpoint, and its oldest day follows the day it runs on.               *)
SetSpan(p) ==
    /\ end' = [end EXCEPT ![p] =
                  IF kind[p] = "backfill" /\ initial.state = "in_progress"
                  THEN initial.next ELSE today]
    /\ oldest' = [oldest EXCEPT ![p] = today - BackfillDays]

(* authenticate(): a session opened with the same credentials is reused,    *)
(* otherwise the portal is asked.                                           *)
Authenticate(p) ==
    /\ At(p, "authenticate")
    /\ remembered' = TRUE
    /\ session' = TRUE
    /\ SetSpan(p)
    /\ GoTo(p, IF kind[p] = "backfill" THEN "mark" ELSE "collect")
    /\ UNCHANGED <<database, up, active, retryWait, initialJob, dailyDue,
                   kind, batch, today, mishaps, requests, history>>

(* The portal refuses the login, or the login's rate limiter is locked: the *)
(* run ends.  A session that other credentials opened keeps its flags.      *)
AuthenticateFails(p) ==
    /\ At(p, "authenticate")
    /\ Mishap("login")
    /\ remembered' = TRUE
    /\ Return(p, FALSE)
    /\ UNCHANGED <<database, up, session, dailyDue, today, requests, history>>

-----------------------------------------------------------------------------
(* The backfill *)

(* The database fails while the credentials or the backfill's state are     *)
(* read, or while the state is written: the run ends.                       *)
DatabaseFails(p) ==
    /\ up
    /\ \/ pc[p] \in {"credentials", "mark", "checkpoint", "complete"}
       \/ pc[p] = "authenticate" /\ kind[p] = "backfill"
    /\ Mishap("database")
    /\ Return(p, FALSE)
    /\ UNCHANGED <<database, up, session, remembered, dailyDue, today,
                   requests, history>>

NextWindow(p, next) ==
    GoTo(p, IF next >= oldest[p] THEN "collect" ELSE "complete")

MarkInProgress(p) ==
    /\ At(p, "mark")
    /\ initial' = [state |-> "in_progress", next |-> end[p]]
    /\ startDay' = IF initial.state = "none" THEN end[p] ELSE startDay
    /\ NextWindow(p, end[p])
    /\ UNCHANGED <<stored, foreignRows, creds, up, active, session,
                   remembered, retryWait, initialJob, dailyDue, run, today,
                   mishaps, requests, swallowed, floor, dailyOutcome>>

SaveCheckpoint(p) ==
    /\ At(p, "checkpoint")
    /\ LET next == WindowStart(p) - 1
       IN  /\ end' = [end EXCEPT ![p] = next]
           /\ initial' = [state |-> "in_progress", next |-> next]
           /\ NextWindow(p, next)
    /\ batch' = [batch EXCEPT ![p] = {}]
    /\ UNCHANGED <<stored, foreignRows, creds, up, active, session,
                   remembered, retryWait, initialJob, dailyDue, kind, oldest,
                   today, mishaps, requests, history>>

CompleteBackfill(p) ==
    /\ At(p, "complete")
    /\ initial' = [state |-> "complete", next |-> 0]
    /\ floor' = oldest[p]
    /\ Return(p, TRUE)
    /\ UNCHANGED <<stored, foreignRows, creds, up, session, remembered,
                   dailyDue, today, mishaps, requests, swallowed, startDay,
                   dailyOutcome>>

-----------------------------------------------------------------------------
(* Collecting and saving, in every kind of run *)

(* What a window's collection and save lose silently matters to the backfill *)
(* only: it alone checkpoints past the window.                               *)
Lose(p, days) ==
    swallowed' = IF kind[p] = "backfill" THEN swallowed \cup days
                                             ELSE swallowed

DailyEnds(p, outcome) ==
    dailyOutcome' = IF kind[p] = "daily" THEN outcome ELSE dailyOutcome

(* The pages arrive.  An HTTP collection stops at MAX_PAGES_PER_COLLECTION, *)
(* so it may see only part of its span.                                     *)
CollectPages(p) ==
    /\ At(p, "collect")
    /\ session \/ remembered
    /\ session' = TRUE
    /\ \E d \in IF kind[p] = "forced" THEN {oldest[p], end[p]}
                                          ELSE {WindowStart(p)} :
          batch' = [batch EXCEPT ![p] = {e \in Window(p) : d <= e}]
    /\ DailyEnds(p, "collected")
    /\ GoTo(p, "save")
    /\ UNCHANGED <<database, up, active, remembered, retryWait, initialJob,
                   dailyDue, kind, end, oldest, today, mishaps, requests,
                   swallowed, startDay, floor>>

(* collect_blacklist_data returns an empty list instead of raising: the     *)
(* session has ended and no login succeeds, or an exception other than a    *)
(* page error is swallowed.                                                 *)
CollectNothing(p) ==
    /\ At(p, "collect")
    /\ \/ /\ ~session /\ remembered
          /\ Mishap("login")
          /\ UNCHANGED session
       \/ /\ ~session /\ ~remembered
          /\ UNCHANGED <<session, mishaps>>
       \/ /\ session \/ remembered
          /\ Mishap("collector")
          /\ session' = TRUE
    /\ batch' = [batch EXCEPT ![p] = {}]
    /\ Lose(p, Window(p))
    /\ DailyEnds(p, IF session \/ remembered THEN "failed"
                                             ELSE "unauthenticated")
    /\ GoTo(p, "save")
    /\ UNCHANGED <<database, up, active, remembered, retryWait, initialJob,
                   dailyDue, kind, end, oldest, today, requests, startDay,
                   floor>>

(* A page fails three times, or the portal answers with three block signals *)
(* in a row: RegtechPageCollectionError ends the run.                       *)
CollectFails(p) ==
    /\ At(p, "collect")
    /\ session \/ remembered
    /\ Mishap("page")
    /\ session' \in BOOLEAN
    /\ Return(p, FALSE)
    /\ DailyEnds(p, "failed")
    /\ UNCHANGED <<database, up, remembered, dailyDue, today, requests,
                   swallowed, startDay, floor>>

AfterSave(p) ==
    IF kind[p] = "backfill"
    THEN /\ GoTo(p, "checkpoint")
         /\ UNCHANGED <<run, active, retryWait, initialJob>>
    ELSE Return(p, TRUE)

(* The transaction of save_blacklist_ips commits. *)
SaveRows(p) ==
    /\ At(p, "save")
    /\ stored' = stored \cup batch[p]
    /\ AfterSave(p)
    /\ UNCHANGED <<initial, foreignRows, creds, up, session, remembered,
                   dailyDue, today, mishaps, requests, history>>

(* A row violates a constraint, or the database fails: the transaction is   *)
(* rolled back, save_blacklist_ips logs it and returns its counts.          *)
SaveRollsBack(p) ==
    /\ At(p, "save")
    /\ batch[p] # {}
    /\ Mishap("save")
    /\ Lose(p, batch[p])
    /\ AfterSave(p)
    /\ UNCHANGED <<database, up, session, remembered, dailyDue, today,
                   requests, startDay, floor, dailyOutcome>>

-----------------------------------------------------------------------------
(* The daily job, run by the scheduler thread after 02:00.  It is not       *)
(* admitted through _active_collections and does not authenticate.          *)

DailyJob ==
    /\ At(Sched, "idle")
    /\ dailyDue
    /\ dailyDue' = FALSE
    /\ dailyOutcome' = "none"
    /\ \/ /\ creds \in {"enabled", "blank"}
          /\ kind' = [kind EXCEPT ![Sched] = "daily"]
          /\ end' = [end EXCEPT ![Sched] = today]
          /\ oldest' = [oldest EXCEPT ![Sched] = today - 1]
          /\ GoTo(Sched, "collect")
          /\ UNCHANGED mishaps
       \/ /\ creds \notin {"enabled", "blank"}
          /\ UNCHANGED <<kind, end, oldest, pc, mishaps>>
       \/ /\ Mishap("database")
          /\ UNCHANGED <<kind, end, oldest, pc>>
    /\ UNCHANGED <<database, up, active, session, remembered, retryWait,
                   initialJob, batch, today, requests, swallowed, startDay,
                   floor>>

-----------------------------------------------------------------------------
(* Time, the operator, and the process *)

(* 3600 s after a failed backfill. *)
RetryElapses ==
    /\ up /\ retryWait
    /\ retryWait' = FALSE
    /\ UNCHANGED <<database, up, active, session, remembered, initialJob,
                   dailyDue, pc, run, today, mishaps, requests, history>>

(* The hour of the session token is over, or another login ended it. *)
SessionExpires ==
    /\ up /\ session
    /\ session' = FALSE
    /\ UNCHANGED <<database, up, active, remembered, retryWait, initialJob,
                   dailyDue, pc, run, today, mishaps, requests, history>>

NextDay ==
    /\ today < MaxDay
    /\ today' = today + 1
    /\ dailyDue' = up
    /\ UNCHANGED <<database, up, active, session, remembered, retryWait,
                   initialJob, pc, run, mishaps, requests, history>>

SetCredentials(c) ==
    /\ creds' = c
    /\ UNCHANGED <<initial, stored, foreignRows, memory, today, mishaps,
                   requests, history>>

(* The dashboard adds a row by hand, or a data bundle is imported. *)
AddForeignRow ==
    /\ foreignRows' = TRUE
    /\ UNCHANGED <<initial, stored, creds, memory, today, mishaps, requests,
                   history>>

(* The container dies, or SIGTERM ends the daemon threads ten seconds later. *)
Crash ==
    /\ up
    /\ Mishap("crash")
    /\ up' = FALSE
    /\ active' = {}
    /\ session' = FALSE
    /\ remembered' = FALSE
    /\ retryWait' = FALSE
    /\ initialJob' = FALSE
    /\ dailyDue' = FALSE
    /\ pc' = [p \in Proc |-> "idle"]
    /\ kind' = [p \in Proc |-> "none"]
    /\ end' = [p \in Proc |-> 0]
    /\ oldest' = [p \in Proc |-> 0]
    /\ batch' = [p \in Proc |-> {}]
    /\ UNCHANGED <<database, today, requests, history>>

Restart ==
    /\ ~up
    /\ up' = TRUE
    /\ initialJob' = TRUE
    /\ UNCHANGED <<database, active, session, remembered, retryWait,
                   dailyDue, pc, run, today, mishaps, requests, history>>

Collection(p) ==
    \/ CheckCredentials(p)
    \/ Authenticate(p)
    \/ AuthenticateFails(p)
    \/ MarkInProgress(p)
    \/ SaveCheckpoint(p)
    \/ CompleteBackfill(p)
    \/ DatabaseFails(p)
    \/ CollectPages(p)
    \/ CollectNothing(p)
    \/ CollectFails(p)
    \/ SaveRows(p)
    \/ SaveRollsBack(p)

InitialJob == InitialJobDecides \/ InitialJobCannotRead \/ InitialJobStarts

Next ==
    \/ InitialJob
    \/ AdmitBackfill
    \/ \E h \in Http : AdmitRequest(h)
    \/ \E p \in Proc : Collection(p)
    \/ DailyJob
    \/ RetryElapses
    \/ SessionExpires
    \/ NextDay
    \/ \E c \in CredentialStates : SetCredentials(c)
    \/ AddForeignRow
    \/ Crash
    \/ Restart

Spec == Init /\ [][Next]_vars

(* The threads run, the clock passes the retry delay and Docker restarts    *)
(* the container.  Nothing obliges the operator, the portal or the calendar. *)
FairSpec ==
    /\ Spec
    /\ WF_vars(InitialJob)
    /\ WF_vars(AdmitBackfill)
    /\ \A p \in Proc : WF_vars(Collection(p))
    /\ WF_vars(DailyJob)
    /\ WF_vars(RetryElapses)
    /\ WF_vars(Restart)

-----------------------------------------------------------------------------
(* Properties *)

(* force_collection admits one collection at a time: however a scheduled    *)
(* backfill, HTTP requests, failures and restarts interleave, at most one    *)
(* thread is between the admission and the finally clause, and the source    *)
(* is marked active exactly while one is.                                    *)
InForceCollection == {p \in Proc : Forced(p)}

SingleForcedRun ==
    /\ \A p, q \in InForceCollection : p = q
    /\ "REGTECH" \in active <=> InForceCollection # {}

(* The days a backfill has checkpointed past: all of startDay .. floor once *)
(* it is complete, the days above the checkpoint while it is in progress.   *)
Checkpointed ==
    {d \in Published :
        /\ d <= startDay
        /\ \/ initial.state = "in_progress" /\ d > initial.next
           \/ initial.state = "complete" /\ d >= floor}

(* No window is skipped: across blocks, crashes, restarts on later days and *)
(* concurrent collections, every published day the checkpoint has passed is *)
(* in the table, unless the run met a failure the code swallows while it    *)
(* worked on that very day.                                                 *)
NoWindowSkipped == Checkpointed \subseteq stored \cup swallowed

(* A decision recorded in the database is final: once the state is complete *)
(* or skipped no backfill is running, whatever the process remembers.       *)
NoBackfillAfterDecision ==
    initial.state \in Finished =>
        \A p \in Proc : kind[p] # "backfill"

(* What the rest of the system may assume of the REGTECH_INITIAL row: see   *)
(* BackfillLedger.                                                          *)
Ledger == INSTANCE BackfillLedger
            WITH ledger <- initial, covered <- stored \cup swallowed

LedgerSpec == Ledger!Spec

(* The slot in _active_collections is always given back, however the        *)
(* collection that holds it ends.                                           *)
SlotIsReleased == "REGTECH" \in active ~> "REGTECH" \notin active

(* Once the operator leaves the credentials enabled, the backfill is        *)
(* eventually completed or found unnecessary, after whatever failures,      *)
(* refusals and restarts.                                                   *)
BackfillIsDecided ==
    <>[](creds = "enabled") => <>(initial.state \in Finished)

(* The promise of collect_regtech_backfill ("saving and checkpointing each  *)
(* one ... without losing finished windows"): every published day the       *)
(* checkpoint has passed is in the table.                                   *)
FinishedWindowsAreKept == Checkpointed \subseteq stored

(* The promise of _daily_collection (it collects "every 24 hours"): a daily *)
(* run that finds enabled credentials does not give up for want of a login. *)
DailyRunLogsIn == dailyOutcome # "unauthenticated"

=============================================================================
