---------------------------- MODULE RegtechSession ----------------------------
(***************************************************************************)
(* What happens inside one collection of REGTECH (collector/core/regtech,  *)
(* core/regtech_excel.py, core/regtech_parsers.py, core/archive_manager.py) *)
(* when two runs share the one collector: the login and its caches, the    *)
(* pages of a window with their retries, the Excel export tried first by   *)
(* runs of limited length, and the archive of the answers.                 *)
(*                                                                         *)
(* CollectorScheduler knows only how such a run ends.  All callers give    *)
(* both dates, hence one date strategy; the portal lists the newest row    *)
(* first; the delay of the request limiter is the time Tick lets pass; the *)
(* columns of a row other than its address are left out.                   *)
(***************************************************************************)
EXTENDS RateLimiters

CONSTANTS
    Logins,         \* threads whose runs log in first; the others need a session
    MaxPages,       \* thread -> max_pages, or None
    Rows,           \* rows the portal starts with, a sequence
    NewRows,        \* rows it may add
    Unusable,       \* rows without a public address
    PageSize,       \* REGTECH_PAGE_SIZE
    PageAttempts,   \* REGTECH_PAGE_ATTEMPTS
    BlockThreshold, \* REGTECH_BLOCK_THRESHOLD
    PageTtl,        \* 60 s: a page may be answered from memory
    AuthTtl,        \* _cache_ttl
    JwtSpan,        \* 3600 s less the margin of 300 s
    ArchiveCap,     \* MAX_ARCHIVE_BYTES, in answers
    Faults,         \* what the portal may do wrong
    MaxMishaps, MaxRuns, MaxFails  \* bounds: mishaps, runs that reach the pages, failed logins

ASSUME SessionAssumption ==
    /\ Logins \subseteq Threads /\ Rows \in Seq(ToSet(Rows))
    /\ {PageSize, PageAttempts, BlockThreshold} \subseteq Nat \ {0}
    /\ {PageTtl, AuthTtl, JwtSpan, ArchiveCap, MaxMishaps, MaxRuns, MaxFails} \subseteq Nat
    /\ Faults \subseteq {"forbidden", "blank", "noTable", "json", "error", "curl", "tooLarge",
                         "session", "password", "network", "news", "export"}

ASSUME KindAssumption ==
    None \notin {"session_expired", "block_suspect", "http_error", "curl_error", "download_too_large"}

VARIABLES
    (* the collector, shared by the threads *)
    authenticated, remembered,
    jwtFor,         \* ticks that _is_jwt_valid() stays true, 0 if it is false
    cachedFor,      \* ticks that the remembered successful login is good for
    jar,            \* the cookie of the session, or None
    failureKind,    \* _last_failure_kind
    dataCache,      \* page -> its rows and the ticks they are good for, or None
    archive,        \* how many answers it holds
    run,            \* thread -> its run
    (* the portal *)
    published,      \* the rows it lists, newest first
    live,           \* the sessions it knows
    accepts,        \* does it accept the stored password
    (* bounds and history *)
    runs, mishaps,
    fails           \* the logins that failed since one succeeded: the age of each, and the age
                    \* that the one Cardinality(Threads) before it then had

collector    == <<authenticated, jwtFor, cachedFor, remembered, jar>>
answers      == <<failureKind, dataCache, archive>>
portal       == <<published, live, accepts>>
counters     == <<runs, mishaps>>
sessionVars  == <<collector, answers, run, portal, counters, fails>>

PageCount == (Len(Rows) + Cardinality(NewRows)) \div PageSize + 2
Idle == [pc |-> "idle", back |-> None, page |-> 1, attempt |-> 1, signals |-> 0, data |-> {},
         seen |-> {}, sent |-> None, answer |-> None, room |-> FALSE,
         since |-> {}, calm |-> TRUE, missing |-> {}, rejected |-> {}, blocks |-> 0,
         overwritten |-> FALSE, unfounded |-> FALSE]

InitSession ==
    /\ authenticated = FALSE /\ jwtFor = 0 /\ cachedFor = 0 /\ remembered = FALSE
    /\ jar = None
    /\ failureKind = None
    /\ dataCache = [p \in 1 .. PageCount |-> None]
    /\ archive = 0
    /\ run = [t \in Threads |-> Idle]
    /\ published = Rows /\ live = {} /\ accepts \in BOOLEAN
    /\ runs = 0 /\ mishaps = 0
    /\ fails = <<>>

-----------------------------------------------------------------------------
(* Helpers *)

Usable(rows) == {r \in rows : r \notin Unusable}
In(t, pc) == run[t].pc = pc
Step(t, r) == run' = [run EXCEPT ![t] = r]
Goes(t, pc) == Step(t, [run[t] EXCEPT !.pc = pc])
(* What is kept of a finished run: the rows it should have returned and did   *)
(* not, and whether it was given up on other signals than its own.            *)
Finished(r, result, data) ==
    [Idle EXCEPT !.missing = IF r.calm /\ result \in {"collected", "empty"}
                             THEN Usable(r.since) \ data ELSE {},
                 !.unfounded = result = "blocked" /\ ~r.overwritten /\ r.blocks < BlockThreshold]

Mishap(fault) ==
    /\ fault \in Faults
    /\ mishaps < MaxMishaps
    /\ mishaps' = mishaps + 1

JwtValid == jwtFor > 0

(* Sessions are named again once no jar and no request under way has them, and *)
(* the portal's memory of those is left out.                                   *)
Sessions == 1 .. Cardinality(Threads) + 2
Named(cookie) == {cookie} \cup {run[t].sent : t \in Threads}

LoginIsCached == cachedFor > 0 /\ JwtValid

(* Runs of limited length try the Excel export before the pages. *)
Collecting(r, t) == [r EXCEPT !.pc = IF MaxPages[t] # None THEN "excel" ELSE "page", !.back = None]

(* A login ends: at the start of a run a failure ends the run, in a retry the *)
(* page is asked for in any case.                                             *)
LoggedIn(r, t, success) ==
    CASE r.back = "page" -> [r EXCEPT !.pc = "page", !.back = None]
      [] success /\ r.back = "ensure" -> [r EXCEPT !.pc = "ensure", !.back = None]
      [] success /\ r.back = "collect" -> Collecting(r, t)
      [] OTHER -> Finished(r, "unauthenticated", {})

-----------------------------------------------------------------------------
(* Runs and logins *)

StartRun(t) ==
    /\ In(t, "idle")
    /\ runs < MaxRuns
    /\ Len(fails) < MaxFails
    /\ LET r == [Idle EXCEPT !.since = ToSet(published)]
       IN  Step(t, IF t \in Logins THEN [r EXCEPT !.pc = "login", !.back = "ensure"]
                   ELSE [r EXCEPT !.pc = "ensure"])
    /\ UNCHANGED <<collector, answers, portal, counters, fails, loginLock>>

EnsureAuthenticated(t) ==
    /\ In(t, "ensure")
    /\ runs' = IF authenticated /\ JwtValid THEN runs + 1 ELSE runs
    /\ Step(t, IF authenticated /\ JwtValid THEN Collecting(run[t], t)
               ELSE IF remembered THEN [run[t] EXCEPT !.pc = "login", !.back = "collect"]
               ELSE Finished(run[t], "unauthenticated", {}))
    /\ UNCHANGED <<collector, answers, portal, mishaps, fails, loginLock>>

(* authenticate: a login that is remembered and still valid is taken over; *)
(* otherwise, unless the login is locked, the jar is emptied and the password *)
(* posted.                                                                    *)
Authenticate(t) ==
    /\ In(t, "login")
    /\ remembered' = TRUE
    /\ authenticated' = (authenticated \/ LoginIsCached)
    /\ IF ~LoginIsCached /\ AuthWaitIfNeeded
       THEN /\ jar' = None
            /\ live' = live \cap Named(None)
            /\ Goes(t, "posted")
       ELSE /\ Step(t, LoggedIn(run[t], t, LoginIsCached))
            /\ UNCHANGED <<jar, live>>
    /\ UNCHANGED <<jwtFor, cachedFor, answers, published, accepts, counters, fails, loginLock>>

(* The portal opens a session: its cookie is in the jar before the flags are set. *)
PortalLogsIn(t) ==
    /\ In(t, "posted")
    /\ accepts
    /\ \E new \in {Min(Sessions \ Named(jar))} :
           /\ jar' = new
           /\ live' = (live \cap Named(None)) \cup {new}
    /\ run' = [u \in Threads |-> [run[u] EXCEPT !.rejected = {}, !.pc = IF u = t THEN "welcomed" ELSE @]]
    /\ UNCHANGED <<authenticated, jwtFor, cachedFor, remembered, answers, published, accepts, counters,
                   fails, loginLock>>

LoginSucceeds(t) ==
    /\ In(t, "welcomed")
    /\ authenticated' = TRUE
    /\ cachedFor' = AuthTtl
    /\ jwtFor' = JwtSpan
    /\ AuthOnSuccess
    /\ fails' = <<>>
    /\ Step(t, LoggedIn(run[t], t, TRUE))
    /\ UNCHANGED <<remembered, jar, answers, portal, counters>>

(* The portal refuses the password, or the exchange with it breaks off. *)
LoginFails(t) ==
    /\ In(t, "posted")
    /\ IF accepts THEN Mishap("network") ELSE UNCHANGED mishaps
    /\ cachedFor' = 0
    /\ AuthOnFailure
    /\ fails' = Append(fails, [age |-> 0, apart |-> LET i == Len(fails) + 1 - Cardinality(Threads)
                                                  IN  IF i > 0 THEN fails[i].age ELSE Lockout])
    /\ Step(t, LoggedIn(run[t], t, FALSE))
    /\ UNCHANGED <<authenticated, jwtFor, remembered, jar, answers, portal, runs>>

-----------------------------------------------------------------------------
(* The Excel export *)

Parsed == Usable(ToSet(published))

DownloadExcelData == IF jar \in live THEN Parsed ELSE {}

(* An export ends the run, unless it fails, has no usable row or its newest   *)
(* row is older than three days: then the pages are read.                     *)
DownloadExcel(t) ==
    /\ In(t, "excel")
    /\ \/ /\ DownloadExcelData # {}
          /\ Step(t, Finished(run[t], "exported", DownloadExcelData))
          /\ UNCHANGED mishaps
       \/ /\ IF DownloadExcelData = {} THEN UNCHANGED mishaps ELSE Mishap("export")
          /\ Goes(t, "page")
    /\ UNCHANGED <<collector, answers, portal, runs, fails, loginLock>>

-----------------------------------------------------------------------------
(* One page *)

Listed(rows) == [kind |-> "table", rows |-> rows]
Without(kind) == [kind |-> kind, rows |-> {}]

(* Rows are kept once; a page that was seen before means the portal repeats   *)
(* itself.  The portal lists a row once and its rows in one order, so that    *)
(* the set of its rows tells a page from the others.                          *)
WithPage(run0, t, rows) ==
    LET r == [run0 EXCEPT !.signals = 0, !.attempt = 1, !.blocks = 0, !.overwritten = FALSE]
        data == r.data \cup rows
    IN  IF rows = {} THEN Finished(r, IF r.data = {} THEN "empty" ELSE "collected", r.data)
        ELSE IF rows \in r.seen THEN Finished(r, "page_error", {})
        ELSE IF MaxPages[t] # None /\ r.page >= MaxPages[t] THEN Finished(r, "truncated", data)
        ELSE [r EXCEPT !.pc = "page", !.page = @ + 1, !.data = data, !.seen = @ \cup {rows}]

(* The page is in memory, or it is asked for with the cookie of the moment. *)
AskForPage(t) ==
    /\ In(t, "page")
    /\ LET p == run[t].page
       IN  Step(t, IF dataCache[p] # None
                   THEN WithPage([run[t] EXCEPT !.calm = FALSE], t, dataCache[p].rows)
                   ELSE [run[t] EXCEPT !.pc = "waiting", !.sent = jar])
    /\ UNCHANGED <<collector, answers, portal, counters, fails, loginLock>>

PortalPage(p) ==
    {published[i] : i \in {i \in DOMAIN published : (p - 1) * PageSize < i /\ i <= p * PageSize}}

IsAnswered(a) == a.kind \notin {"curl", "tooLarge"}
FullArchiveHasCapacity(kept) == kept <= ArchiveCap

HasArchiveCapacity(kept) == kept + 1 <= ArchiveCap

(* The answer arrives, the answers that are past their retention (none or all *)
(* of them) are deleted and the rest is measured.                             *)
PageAnswered(t, a) ==
    /\ \E kept \in IF IsAnswered(a) THEN {0, archive} ELSE {archive} :
           /\ archive' = kept
           /\ Step(t, [run[t] EXCEPT !.pc = "answered", !.answer = a,
                                     !.room = IsAnswered(a) /\ HasArchiveCapacity(kept)])
    /\ UNCHANGED <<collector, failureKind, dataCache, portal, runs, fails, loginLock>>

PortalAnswers(t) ==
    /\ In(t, "waiting")
    /\ PageAnswered(t, IF run[t].sent \in live THEN Listed(PortalPage(run[t].page)) ELSE Without("redirect"))
    /\ UNCHANGED mishaps

(* Having misbehaved, the portal may go on.  An answer in JSON has the rows of *)
(* the page or none.                                                          *)
PortalMisbehaves(t) ==
    /\ In(t, "waiting")
    /\ \E fault \in {"forbidden", "blank", "noTable", "json", "error", "curl", "tooLarge"} :
           /\ IF run[t].attempt = 1 THEN Mishap(fault) ELSE fault \in Faults /\ UNCHANGED mishaps
           /\ \E rows \in IF fault = "json" THEN {{}, PortalPage(run[t].page)} ELSE {{}} :
                  PageAnswered(t, [kind |-> fault, rows |-> rows])

(* parse_html_response: the table that says there is no data is an empty page; *)
(* no table, or no usable row in it, is no page at all.                        *)
ParseHtmlLeniently(a) == Usable(a.rows)

ParseHtml(a) == IF a.kind = "table" /\ (a.rows = {} \/ Usable(a.rows) # {}) THEN Usable(a.rows) ELSE None

(* _parse_response_data: what is no list in JSON is parsed as HTML; a list in  *)
(* JSON is a page, and an empty page if no row of it is usable.               *)
ParseResponseData(a) == IF a.kind = "json" THEN Usable(a.rows) ELSE ParseHtml(a)

FailureOf(a) ==
    CASE a.kind = "redirect" -> "session_expired"
      [] a.kind \in {"forbidden", "blank"} -> "block_suspect"
      [] a.kind = "error" -> "http_error"
      [] a.kind = "curl" -> "curl_error"
      [] a.kind = "tooLarge" -> "download_too_large"
      [] OTHER -> IF ParseResponseData(a) = None THEN "block_suspect" ELSE None

ArchiveContent(t) == IF run[t].room THEN archive + 1 ELSE archive

InvalidateFlags ==
    /\ authenticated' = FALSE
    /\ UNCHANGED <<jwtFor, cachedFor, jar, remembered>>

InvalidateSession ==
    /\ authenticated' = FALSE
    /\ jwtFor' = 0
    /\ cachedFor' = 0
    /\ jar' = None
    /\ UNCHANGED remembered

(* The kind of failure is a field of the collector: another run may read it. *)
Overwrites(t, kind) ==
    [u \in Threads |->
        IF u # t /\ run[u].pc = "failed" /\ kind # failureKind
        THEN [run[u] EXCEPT !.overwritten = TRUE] ELSE run[u]]

ProcessPage(t) ==
    /\ In(t, "answered")
    /\ LET a == run[t].answer
           kind == FailureOf(a)
           r == [run[t] EXCEPT !.answer = None, !.room = FALSE, !.sent = None]
           own == IF kind = "block_suspect" THEN r.blocks + 1 ELSE 0
           rows == ParseResponseData(a)
       IN  /\ archive' = ArchiveContent(t)
           /\ failureKind' = kind
           /\ IF kind = None
              THEN /\ dataCache' = [dataCache EXCEPT ![r.page] = [left |-> PageTtl, rows |-> rows]]
                   /\ run' = [Overwrites(t, kind) EXCEPT
                                 ![t] = WithPage([r EXCEPT !.calm = @ /\ (rows # {} \/ a.kind # "json")], t, rows)]
                   /\ UNCHANGED collector
              ELSE /\ run' = [Overwrites(t, kind) EXCEPT
                                 ![t] = [r EXCEPT !.pc = "failed", !.blocks = own,
                                             !.rejected = IF kind = "session_expired"
                                                          THEN @ \cup ({run[t].sent} \ {None}) ELSE @]]
                   /\ IF kind = "session_expired" THEN InvalidateSession ELSE UNCHANGED collector
                   /\ UNCHANGED dataCache
           /\ live' = live \cap ({jar'} \cup {run'[u].sent : u \in Threads})
    /\ UNCHANGED <<published, accepts, counters, fails, loginLock>>

-----------------------------------------------------------------------------
(* Between pages *)

SignalsOfAnyFailure(r) == IF failureKind # None THEN r.signals + 1 ELSE 0

Signals(r) == IF failureKind = "block_suspect" THEN r.signals + 1 ELSE 0

AttemptsAreOver(r) == r.attempt >= PageAttempts

(* After the backoff the run reads the kind of failure: block signals are     *)
(* counted, an expired session is opened again, and the page is asked for     *)
(* again, three times in all.                                                 *)
RetryPage(t) ==
    /\ In(t, "failed")
    /\ LET signals == Signals(run[t])
           r == [run[t] EXCEPT !.signals = signals, !.overwritten = signals > 0 /\ @]
           again == [r EXCEPT !.attempt = @ + 1, !.pc = "page"]
       IN  Step(t, IF signals >= BlockThreshold THEN Finished(r, "blocked", {})
                   ELSE IF AttemptsAreOver(r) THEN Finished(r, "page_error", {})
                   ELSE IF failureKind = "session_expired" /\ ~(authenticated /\ JwtValid) /\ remembered
                   THEN [again EXCEPT !.pc = "login", !.back = "page"]
                   ELSE again)
    /\ UNCHANGED <<collector, answers, portal, counters, fails, loginLock>>

-----------------------------------------------------------------------------
(* The portal on its own *)

DropSessions ==
    /\ live # {}
    /\ Mishap("session")
    /\ live' = {}
    /\ UNCHANGED <<collector, answers, run, published, accepts, runs, fails, loginLock>>

PasswordExpires ==
    /\ accepts
    /\ Mishap("password")
    /\ accepts' = FALSE
    /\ UNCHANGED <<collector, answers, run, published, live, runs, fails, loginLock>>

Publish ==
    /\ Mishap("news")
    /\ \E n \in NewRows \ ToSet(published) : published' = <<n>> \o published
    /\ UNCHANGED <<collector, answers, run, live, accepts, runs, fails, loginLock>>

(* Time runs down whatever holds for a time; what has run out is forgotten. *)
TimePasses ==
    LET less(n) == Max({0, n - 1})
    IN  /\ jwtFor' = less(jwtFor) /\ cachedFor' = less(cachedFor) /\ lockedFor' = less(lockedFor)
        /\ dataCache' = [p \in 1 .. PageCount |->
               IF dataCache[p] = None \/ dataCache[p].left <= 1 THEN None
               ELSE [dataCache[p] EXCEPT !.left = @ - 1]]
        /\ fails' = [i \in DOMAIN fails |-> [fails[i] EXCEPT !.age = Min({Lockout, @ + 1})]]
    /\ UNCHANGED <<authenticated, remembered, jar, failureKind, archive, run, portal, counters, consecutive>>

SessionNext ==
    \/ \E t \in Threads :
        \/ StartRun(t) \/ EnsureAuthenticated(t) \/ Authenticate(t)
        \/ PortalLogsIn(t) \/ LoginSucceeds(t) \/ LoginFails(t)
        \/ DownloadExcel(t) \/ AskForPage(t)
        \/ PortalAnswers(t) \/ PortalMisbehaves(t) \/ ProcessPage(t)
        \/ RetryPage(t)
    \/ DropSessions \/ PasswordExpires \/ Publish \/ TimePasses

(* A behaviour is about the request limiter or about the sessions. *)
CollectionNext ==
    \/ /\ published = Rows /\ mishaps = 0 /\ ~remembered /\ \A t \in Threads : run[t] = Idle
       /\ LimiterNext
       /\ UNCHANGED sessionVars
    \/ /\ now = 0 /\ grants = <<>> /\ \A t \in Threads : At(t, "idle")
       /\ SessionNext
       /\ UNCHANGED <<now, bucketVars>>

CollectionInit == InitLimiters /\ InitSession

CollectionSpec == CollectionInit /\ [][CollectionNext]_<<now, bucketVars, loginLock, sessionVars>>

-----------------------------------------------------------------------------
(* Properties *)

(* A run that reads pages until the portal has no more, without a page from   *)
(* memory, returns every usable row that was listed from its start to its     *)
(* end, though rows were added in between and the portal redirected, refused  *)
(* or answered with something else.  Two answers are taken for the end: the   *)
(* empty table, which is the end, and a list in JSON without a usable row,    *)
(* after which nothing is promised of the rows.                               *)
RunsAreWhole ==
    \A t \in Threads : run[t].missing = {}

(* From the attempt that locks the login on, no more logins fail in one       *)
(* lockout than there are threads that may be under way at once, however      *)
(* many runs ask, and a lock that ran out is back after one failure.          *)
LoginsAreLimited ==
    \A i \in DOMAIN fails :
        i >= MaxAttempts + Cardinality(Threads) => fails[i].apart >= Lockout

(* A session that the portal has rejected is not sent to it again by the run  *)
(* that was told so: the cached login does not bring it back.                 *)
RejectedSessionsAreDropped ==
    \A t \in Threads : In(t, "waiting") => run[t].sent \notin run[t].rejected

(* A run that is given up as blocked has itself been answered with that many  *)
(* block signals in a row, unless another run wrote the shared kind of        *)
(* failure while this one was waiting.                                        *)
BlockedMeansBlocked ==
    \A t \in Threads : ~run[t].unfounded

(* The archive is measured before it is written to: it exceeds its limit by   *)
(* at most one answer for each other thread.                                  *)
ArchiveStaysNearItsCap == archive <= ArchiveCap + Cardinality(Threads) - 1

(* What a run tells the scheduler is so: rows returned as complete are      *)
(* complete, unless a list in JSON ended it or a page came from memory, and *)
(* a run that is given up as blocked was (collector.py).                    *)
VerdictsAreRight == RunsAreWhole /\ BlockedMeansBlocked

(* The portal is spared: neither requests nor failed logins of all threads  *)
(* together exceed what the limiters promise (rate_limiter.py).             *)
PortalIsSpared == RequestsStayUnderTheRate /\ BackoffsAreKept /\ LoginsAreLimited

=============================================================================
