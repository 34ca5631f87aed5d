----------------------------- MODULE ReadModels -----------------------------
(***************************************************************************)
(* What the app answers about its tables: lists, exports, dashboards,      *)
(* statistics and the feeds that firewalls pull (app/core/routes/api, the  *)
(* services behind it, and the unregistered pages of app/core/routes/web). *)
(*                                                                         *)
(* Every statement is its own snapshot (READ COMMITTED), so an answer of   *)
(* several statements is an operator over a sequence of tables, one for    *)
(* each statement, and a list read page by page is a behaviour.  A table   *)
(* whose database is down answers no statement.  Rows are what the figures *)
(* tell apart; moments are counted in days, and rows of one batch share    *)
(* their creation.  Serialisation and texts are left out.                  *)
(***************************************************************************)
EXTENDS Integers, Sequences, FiniteSets, FiniteSetsExt, SequencesExt

CONSTANTS
    None,        \* SQL's NULL
    Ips,
    Payloads,    \* what requests store: the fields of a row they give
    Tables,      \* the tables a behaviour starts from
    LastId,      \* the last id given before
    Today,
    Retention,   \* history_retention_days
    Size,        \* bound: the page size that clients ask for
    MaxWrites    \* bound: writes of a behaviour

ASSUME TodayAssumption ==
    /\ Today \in Nat /\ Retention \in Nat
    /\ None \notin Int
    /\ None \notin {"high", "medium", "low"} \cup {"empty", "cells", "api", "flat"}
(* 90 days in the code: history outlives the widest window of a figure, a month. *)
ASSUME RetentionAssumption == Retention >= 30
ASSUME SizeAssumption == Size \in Nat \ {0} /\ MaxWrites \in Nat

Days      == 0 .. Today
Dates     == 0 .. Today + 60 \cup {None}
Countries == {"KR", "US", "UNKNOWN", None}
Row ==
    [id : Nat, ip : Ips, source : {"REGTECH", "MANUAL"}, data : {"REGTECH", "MANUAL", None},
     active : BOOLEAN, confidence : 0 .. 100, country : Countries, detected : Dates,
     removal : Dates, seen : Days, created : Days, updated : Days, count : Nat,
     raw : {None, "empty", "cells", "api", "flat"}]
Exempt == [id : Nat, ip : Ips, active : {TRUE}, source : {"MANUAL"}, created : Days]
Run    == [id : Nat, service : {"REGTECH", "OTHER"}, date : Days, items : Nat, success : BOOLEAN]

Payload ==
    [source : {"REGTECH", "MANUAL"}, data : {"REGTECH", "MANUAL", None}, active : BOOLEAN,
     confidence : 0 .. 100, country : Countries, detected : Dates, removal : Dates]

ASSUME PayloadsAssumption == Payloads \subseteq Payload /\ LastId \in Nat

(* The id is the primary key of each table, address and source are a key too. *)
ASSUME TablesAssumption ==
    \A t \in Tables :
        /\ t = [rows |-> t.rows, white |-> t.white, runs |-> t.runs, up |-> t.up]
        /\ t.rows \subseteq Row /\ t.white \subseteq Exempt /\ t.runs \subseteq Run
        /\ t.up \in BOOLEAN
        /\ \A x, y \in t.rows : x.ip = y.ip /\ x.source = y.source => x = y
        /\ \A table \in {t.rows, t.white, t.runs} :
               /\ IsFiniteSet(table)
               /\ \A x \in table : x.id <= LastId
               /\ \A x, y \in table : x.id = y.id => x = y

VARIABLES
    db,          \* [rows, white, runs, up]: the committed tables
    before,      \* the tables before the last write
    serial,      \* the last id given
    writes,
    walk         \* a client that reads a list to its end, or None

tables == <<db, before, serial, writes>>

InitTables ==
    /\ db \in Tables
    /\ before = db
    /\ serial = LastId
    /\ writes = 0
    /\ walk = None

-----------------------------------------------------------------------------
(* Who writes *)

Put(rows, white, runs) ==
    /\ writes < MaxWrites
    /\ db.up
    /\ writes' = writes + 1
    /\ db' = [db EXCEPT !.rows = rows, !.white = white, !.runs = runs]
    /\ before' = db

(* What a write does to the rows that a walking client may still meet; torn   *)
(* are the writes between the two statements of its last request.             *)
Disturb(kind) ==
    walk' = IF walk = None THEN None
            ELSE [walk EXCEPT !.disturbed = IF kind = "insert" /\ @ # "other" THEN "insert"
                                            ELSE "other",
                              !.torn = IF walk.half THEN @ + 1 ELSE @]

CreateBlacklist(ip, p) ==
    LET old == {r \in db.rows : r.ip = ip /\ r.source = p.source}
        new == [id |-> serial + 1, ip |-> ip, source |-> p.source, data |-> p.data,
                active |-> p.active, confidence |-> p.confidence, country |-> p.country,
                detected |-> p.detected, removal |-> p.removal, seen |-> Today,
                created |-> Today, updated |-> Today, count |-> 1, raw |-> "empty"]
        merged(r) == [new EXCEPT !.id = r.id, !.created = r.created, !.count = r.count + 1,
                                 !.country = IF p.country = None THEN r.country ELSE @,
                                 !.raw = r.raw]
    IN  /\ Put((db.rows \ old) \cup (IF old = {} THEN {new} ELSE {merged(r) : r \in old}),
               db.white, db.runs)
        /\ serial' = serial + 1
        /\ Disturb(IF old = {} THEN "insert" ELSE "update")

(* The first of the address's rows, in no particular order. *)
ManuallyExpireIp(ip) ==
    \E r \in {r \in db.rows : r.ip = ip} :
        /\ r.active
        /\ Put((db.rows \ {r}) \cup {[r EXCEPT !.active = FALSE, !.removal = Today,
                                               !.updated = Today]},
               db.white, db.runs)
        /\ Disturb("update")
        /\ UNCHANGED serial

CreateWhitelist(ip) ==
    LET old == {w \in db.white : w.ip = ip}
        new == [id |-> serial + 1, ip |-> ip, active |-> TRUE, source |-> "MANUAL",
                created |-> Today]
    IN  /\ Put(db.rows, IF old = {} THEN db.white \cup {new} ELSE db.white, db.runs)
        /\ serial' = serial + 1
        /\ Disturb(IF old = {} THEN "insert" ELSE "update")

(* A reason or a country: nothing the figures tell apart, but a write. *)
UpdateWhitelist ==
    /\ db.white # {}
    /\ Put(db.rows, db.white, db.runs)
    /\ Disturb("update")
    /\ UNCHANGED serial

DeleteWhitelist ==
    \E w \in db.white :
        /\ Put(db.rows, db.white \ {w}, db.runs)
        /\ Disturb("delete")
        /\ UNCHANGED serial

RecordCollectionHistory(service, items, success) ==
    /\ Put(db.rows, db.white,
           db.runs \cup {[id |-> serial + 1, service |-> service, date |-> Today,
                          items |-> items, success |-> success]})
    /\ serial' = serial + 1
    /\ Disturb("insert")

CleanupOldHistory ==
    /\ Put(db.rows, db.white, {r \in db.runs : r.date >= Today - Retention})
    /\ Disturb("delete")
    /\ UNCHANGED serial

(* PostgreSQL goes away and comes back. *)
Outage ==
    /\ db' = [db EXCEPT !.up = ~@]
    /\ before' = db
    /\ writes < MaxWrites
    /\ writes' = writes + 1
    /\ UNCHANGED <<serial, walk>>

Write ==
    \/ \E ip \in Ips :
           \/ \E p \in Payloads : CreateBlacklist(ip, p)
           \/ ManuallyExpireIp(ip)
           \/ CreateWhitelist(ip)
    \/ UpdateWhitelist
    \/ DeleteWhitelist
    \/ \E success \in BOOLEAN : RecordCollectionHistory("REGTECH", 1, success)
    \/ CleanupOldHistory
    \/ Outage

-----------------------------------------------------------------------------
(* Statements *)

Active(T)   == {r \in T.rows : r.active}
Exempted(T) == {w.ip : w \in {w \in T.white : w.active}}

(* WHERE is_active AND ip NOT IN the active whitelist *)
Enforced(T) == {r \in Active(T) : r.ip \notin Exempted(T)}

Known(S, field)    == {r[field] : r \in S} \ {None}
Latest(S, field)   == IF S = {} THEN None ELSE Max({r[field] : r \in S})
Group(S, field, v) == {r \in S : r[field] = v}

Sum(d)   == SumFunction(d)
Items(S) == Sum([r \in S |-> r.items])

(* A dict filled from GROUP BY f with COALESCE(f, 'UNKNOWN') as its key: when *)
(* NULL and a literal UNKNOWN are both there, the later group wins.           *)
Label(v) == IF v = None THEN "UNKNOWN" ELSE v
Breakdowns(S, field) ==
    LET values == {r[field] : r \in S}
        labels == {Label(v) : v \in values}
    IN  {[l \in labels |-> Cardinality(Group(S, field, pick[l]))] :
             pick \in {p \in [labels -> values] : \A l \in labels : Label(p[l]) = l}}

Pages(total, size)  == (total + size - 1) \div size

Answered(S)         == \A i \in DOMAIN S : S[i].up

-----------------------------------------------------------------------------
(* Lists.  A list is the rows it is about and what it sorts them by, largest *)
(* first; SQL puts NULL before every number and leaves ties in any order.    *)

NullsFirst(v) == IF v = None THEN Today + 100 ELSE v
List(S, key(_)) == [of |-> S, key |-> [r \in S |-> key(r)]]
Lexicographic(a, b) ==
    \E i \in DOMAIN a : a[i] > b[i] /\ \A j \in 1 .. i - 1 : a[j] = b[j]
Orders(l) == {s \in SetToSeqs(l.of) : \A i, j \in DOMAIN s :
                  i < j => ~Lexicographic(l.key[s[j]], l.key[s[i]])}
Sorted(l) == \A r, q \in l.of : l.key[r] = l.key[q] => r = q

GetBlacklistList(T) == List(T.rows, LAMBDA r : <<r.id>>)
GetBlacklistJson(T) == List(T.rows, LAMBDA r : <<r.updated>>)
GetBlacklist(T)     == List(T.rows, LAMBDA r : <<r.created>>)
GetWhitelist(T)     == List(T.white, LAMBDA w : <<w.created>>)
GetTableData(T)     == List(T.rows, LAMBDA r : <<r.created, r.id>>)

(* Both tables in one list; every whitelist row is shown as active. *)
GetUnifiedList(T, type, active, source) ==
    LET black == {[type |-> "blacklist", id |-> r.id, ip |-> r.ip, active |-> r.active,
                   source |-> r.source, created |-> r.created] : r \in T.rows}
        white == {[type |-> "whitelist", id |-> w.id, ip |-> w.ip, active |-> TRUE,
                   source |-> w.source, created |-> w.created] : w \in T.white}
    IN  List({r \in black \cup white :
                  /\ type # None => r.type = type
                  /\ active # None => r.active = active
                  /\ source # None => r.source = source},
             LAMBDA r : <<r.created>>)

GetActiveIps(T) ==
    List(Enforced(T), LAMBDA r : <<NullsFirst(r.confidence), NullsFirst(r.detected)>>)

GetCollectionHistory(T, service) ==
    List({r \in T.runs : service # None => r.service = service}, LAMBDA r : <<r.date>>)

(* Pages of the web module, which no app registers. *)
ApiBlacklistList(T, activeOnly, source) ==
    List({r \in T.rows : (activeOnly => r.active) /\ (source # None => r.source = source)},
         LAMBDA r : <<r.created>>)
ApiCollectionHistory(T) == List(T.runs, LAMBDA r : <<r.date>>)
SearchCollectedIps(T, country, source, active, from, to) ==
    List({r \in T.rows :
              /\ country \notin {None, "ALL"} => r.country = country
              /\ source \notin {None, "ALL"} => r.source = source
              /\ active # None => r.active = active
              /\ from # None => r.detected # None /\ r.detected >= from
              /\ to # None => r.detected # None /\ r.detected <= to},
         LAMBDA r : <<r.created>>)

(* Whole lists, cut off at a limit; `matching` are the texts that the query *)
(* is a part of.                                                            *)
SearchIps(T, matching) ==
    List({r \in T.rows : {r.ip, r.source, r.country} \cap matching # {}},
         LAMBDA r : <<r.count, r.seen>>)
GetRealTimeDetectionLog(T) == List({r \in T.rows : r.created >= Today - 1}, LAMBDA r : <<r.created>>)
GetActiveSessions(T, days) ==
    List({r \in T.rows : r.detected # None /\ r.detected >= Today - days}, LAMBDA r : <<r.detected>>)
AnyCandidates(T, minimum) ==
    List({r \in Active(T) : r.count >= minimum}, LAMBDA r : <<r.count>>)

GetWhitelistCandidates(T, minimum) ==
    List({r \in Active(T) : r.ip \notin {w.ip : w \in T.white} /\ r.count >= minimum},
         LAMBDA r : <<r.count>>)

GetRecentHistory(T, service, days) ==
    List({r \in T.runs : r.date >= Today - days /\ (service # None => r.service = service)},
         LAMBDA r : <<r.date>>)
ExportRawData(T, activeOnly, source, includeEmpty) ==
    List({r \in T.rows :
              /\ activeOnly => r.active
              /\ source # None => r.source = source
              /\ ~includeEmpty => r.raw \notin {None, "empty"}},
         LAMBDA r : <<r.created>>)
(* The copy in the web module asks for the raw data when it may be empty. *)
ApiBlacklistExportRaw(T, activeOnly, source, includeEmpty) ==
    List({r \in T.rows :
              /\ activeOnly => r.active
              /\ source # None => r.source = source
              /\ includeEmpty => r.raw \notin {None, "empty"}},
         LAMBDA r : <<r.created>>)
(* is_active as that copy shows it: 90 days stand for the three months. *)
ShownActive(r) ==
    /\ r.active
    /\ r.removal # None => r.removal >= Today
    /\ r.detected # None => r.detected >= Today - 90

(* The columns an export fills from the raw data of a row. *)
RawColumns(raw) ==
    CASE raw = "cells" -> {"no", "ip", "detection", "removal", "reason", "country", "collected"}
      [] raw \in {"api", "flat"} -> {"ip", "detection", "removal", "reason", "country", "collected"}
      [] OTHER -> {}

SessionStatus(r) ==
    IF r.active THEN "active"
    ELSE IF r.removal # None /\ r.removal <= Today THEN "expired"
    ELSE "inactive"

-----------------------------------------------------------------------------
(* Feeds: what firewalls and Cloudflare are told to block.  An answer has a  *)
(* status and, when it is 200, rows; total comes from a second statement.    *)

Error(status) == [status |-> status, rows |-> {}, total |-> 0]
Feed(S, status, rows, total) ==
    IF Answered(S) THEN [status |-> 200, rows |-> rows, total |-> total] ELSE Error(status)

GetBlocklistOrNothing(T) == Feed(<<T>>, 200, Enforced(T), Cardinality(Enforced(T)))
GetThreatFeed(T)  == Feed(<<T>>, 500, Enforced(T), Cardinality(Enforced(T)))

GetBlocklist(T)   == Feed(<<T>>, 500, Enforced(T), Cardinality(Enforced(T)))

ActiveIpsAnswer(S) == Feed(S, 500, GetActiveIps(S[1]).of, Cardinality(Enforced(S[2])))
(* Cloudflare's query answers an error with no address at all. *)
FetchActiveIps(T) == Feed(<<T>>, 200, Enforced(T), Cardinality(Enforced(T)))

Risk(confidence) ==
    IF confidence >= 80 THEN "high" ELSE IF confidence >= 50 THEN "medium" ELSE "low"
SelectedStrictly(level, confidence) ==
    CASE level = "high"   -> confidence > 80
      [] level = "medium" -> confidence > 50 /\ confidence < 80
      [] level = "low"    -> confidence < 50
      [] level = None     -> TRUE

Selected(level, confidence) ==
    CASE level = "high"   -> confidence >= 80
      [] level = "medium" -> confidence >= 50 /\ confidence < 80
      [] level = "low"    -> confidence < 50
      [] level = None     -> TRUE

GetJsonConnector(S, level, country) ==
    Feed(S, 500,
         {r \in Enforced(S[1]) : /\ Selected(level, r.confidence)
                                 /\ country # None => r.country = country},
         Cardinality(Enforced(S[2])))
(* Rows of the connector in the order a limit cuts off. *)
ConnectorOrder(T, level, country) ==
    List(GetJsonConnector(<<T, T>>, level, country).rows,
         LAMBDA r : <<NullsFirst(r.confidence), NullsFirst(r.detected)>>)

(* check_blacklist without its caches: whitelisted first, then any active row. *)
CheckBlacklist(T, ip) ==
    IF ~T.up THEN FALSE ELSE ip \notin Exempted(T) /\ \E r \in Active(T) : r.ip = ip

(* GET /json hides a failure behind an empty first page. *)
BlacklistJsonAnswer(S) == Feed(S, 200, GetBlacklistJson(S[2]).of, Cardinality(S[1].rows))
BlacklistListAnswer(S) == Feed(S, 500, GetBlacklistList(S[1]).of, Cardinality(S[2].rows))

-----------------------------------------------------------------------------
(* Figures.  S[i] is the table the i-th statement of the answer sees; an     *)
(* answer that failed shows no figures: zeros, or an error.                  *)

Total(T)  == Cardinality(T.rows)
ActiveOf(T) == Cardinality(Active(T))
NoFigures == [shown |-> FALSE, total |-> 0, active |-> 0]

GetDashboardStats(S) ==
    IF ~Answered(S) THEN NoFigures
    ELSE [shown |-> TRUE, total |-> Total(S[1]), active |-> ActiveOf(S[2]),
          recent |-> Cardinality({r \in S[3].rows : r.seen >= Today - 1}),
          white |-> Cardinality(S[4].white),
          last |-> Latest(S[5].rows, "seen"),
          bySource |-> Breakdowns(Active(S[6]), "data"),
          byCountry |-> Breakdowns(Active(S[7]), "country"),
          byReason |-> Breakdowns(Active(S[8]), "source")]

GetMonitoringDashboard(S) ==
    IF ~Answered(S) THEN NoFigures
    ELSE [shown |-> TRUE, total |-> Total(S[1]), active |-> ActiveOf(S[2]),
          recent |-> List(S[3].runs, LAMBDA r : <<r.date>>)]

SharesOfTheFirstTotal(S) ==
    IF ~Answered(S) THEN NoFigures
    ELSE [shown |-> TRUE, total |-> Total(S[1]), active |-> ActiveOf(S[2]),
          expired |-> Cardinality(S[3].rows \ Active(S[3])),
          shares |-> [v \in Known(S[4].rows, "data") |->
                          [count |-> Cardinality(Group(S[4].rows, "data", v)),
                           of |-> Total(S[1])]]]

(* The share of a source is of the statement's own total, NULL sources left out. *)
GetSystemStats(S) ==
    IF ~Answered(S) THEN NoFigures
    ELSE [shown |-> TRUE, total |-> Total(S[1]), active |-> ActiveOf(S[2]),
          expired |-> Cardinality(S[3].rows \ Active(S[3])),
          shares |-> [v \in Known(S[4].rows, "data") |->
                          [count |-> Cardinality(Group(S[4].rows, "data", v)),
                           of |-> Total(S[4])]],
          last |-> Latest(S[5].rows, "created")]

GetAnalyticsOverview(T) ==
    IF ~T.up THEN NoFigures
    ELSE [shown |-> TRUE, total |-> Total(T), active |-> ActiveOf(T),
          sources |-> Cardinality(Known(T.rows, "data")),
          today |-> Cardinality({r \in T.rows : r.created > Today - 1}),
          week |-> Cardinality({r \in T.rows : r.created > Today - 7})]

GetUnifiedStatistics(S) ==
    LET recent == {r \in S[2].runs : r.date >= Today - 7}
    IN  IF ~Answered(S) THEN NoFigures
        ELSE [shown |-> TRUE, total |-> Total(S[1]), active |-> ActiveOf(S[1]),
              sources |-> Cardinality(Known(S[1].rows, "source")),
              countries |-> Cardinality(Known(S[1].rows, "country")),
              recent |-> Cardinality({r \in S[1].rows : r.detected # None /\ r.detected >= Today - 1}),
              frequent |-> Cardinality({r \in S[1].rows : r.count > 5}),
              collections |-> Cardinality(recent),
              successful |-> Cardinality({r \in recent : r.success})]

GetBlacklistStats(S) ==
    IF ~Answered(S) THEN NoFigures
    ELSE [shown |-> TRUE, total |-> Total(S[1]), active |-> ActiveOf(S[2]),
          last |-> Latest(S[3].rows, "updated")]

GetDashboardCounts(S) ==
    IF ~Answered(S) THEN [shown |-> FALSE, total |-> 0, regtech |-> 0]
    ELSE [shown |-> TRUE, total |-> Total(S[1]),
          regtech |-> Cardinality(Group(S[2].rows, "data", "REGTECH")),
          last |-> Latest(S[3].runs, "date")]

GetExpiryStats(T) ==
    IF ~T.up THEN NoFigures
    ELSE [shown |-> TRUE, total |-> Total(T), active |-> ActiveOf(T),
          inactive |-> Cardinality(T.rows \ Active(T)),
          pending |-> Cardinality({r \in Active(T) : r.removal # None /\ r.removal < Today}),
          future |-> Cardinality({r \in T.rows : r.removal # None /\ r.removal >= Today})]

(* One line for each list and source. *)
GetStatistics(T) ==
    LET lines(S) == {[source |-> v, count |-> Cardinality(Group(S, "source", v)),
                      active |-> Cardinality({r \in Group(S, "source", v) : r.active})] :
                         v \in {r.source : r \in S}}
    IN  [black |-> lines(T.rows), white |-> lines(T.white)]

GetPerformanceMetrics(S) ==
    IF ~Answered(S) THEN NoFigures
    ELSE [shown |-> TRUE, active |-> ActiveOf(S[1]),
          recent |-> List({r \in S[2].runs : r.date > Today - 1}, LAMBDA r : <<r.date>>),
          health |-> IF ActiveOf(S[1]) > 0 THEN "healthy" ELSE "degraded"]

ApiStats(S) ==
    IF ~Answered(S) THEN NoFigures
    ELSE [shown |-> TRUE, total |-> Total(S[1]), active |-> ActiveOf(S[1]),
          today |-> Cardinality({r \in S[1].rows : r.created > Today - 1}),
          week |-> Cardinality({r \in S[1].rows : r.created > Today - 7}),
          bySource |-> {[label |-> v, count |-> Cardinality(Group(Active(S[2]), "data", v))] :
                            v \in {r.data : r \in Active(S[2])}}]

(* The page of the web module: shares of the total counted before. *)
Dashboard(S) ==
    IF ~Answered(S) THEN [shown |-> FALSE, total |-> 0, active |-> 0, byData |-> {}]
    ELSE [shown |-> TRUE, total |-> Total(S[1]), active |-> ActiveOf(S[2]),
          byData |-> Breakdowns(Active(S[3]), "data")]

GetRealStats(S) ==
    IF ~Answered(S) THEN NoFigures
    ELSE [shown |-> TRUE, total |-> Total(S[1]), active |-> ActiveOf(S[2]),
          regtech |-> Cardinality(Group(S[3].rows, "data", "REGTECH")),
          last |-> Latest(S[5].rows, "seen")]

DetectedTimeline(S, days) ==
    LET rows == {r \in S[1].rows : r.detected # None}
    IN  [shown |-> TRUE, sources |-> <<>>,
         timeline |-> [d \in {r.detected : r \in rows} |->
                           [count |-> Cardinality(Group(rows, "detected", d))]]]

(* One line for each day of detection, or of creation where that is unknown. *)
GetDetectionTimeline(S, days) ==
    LET day(r) == IF r.detected # None THEN r.detected ELSE r.created
        lines(T) == LET rows == {r \in T.rows : days # None => day(r) >= Today - days}
                        of(d) == {r \in rows : day(r) = d}
                    IN  [d \in {day(r) : r \in rows} |->
                             [count |-> Cardinality(of(d)), sources |-> Known(of(d), "source")]]
    IN  IF ~Answered(S) THEN [shown |-> FALSE]
        ELSE [shown |-> TRUE, timeline |-> lines(S[1]), sources |-> lines(S[2])]

ApiChartData(T, type) ==
    LET recent == {r \in T.rows : r.created > Today - 30}
    IN  IF type = "daily"
        THEN {[label |-> d, value |-> Cardinality(Group(recent, "created", d))] :
                  d \in {r.created : r \in recent}}
        ELSE {[label |-> v, value |-> Cardinality(Group(Active(T), "data", v))] :
                  v \in {r.data : r \in Active(T)}}

(* What the analysis of false positives groups: the recent active rows. *)
AnalyzeFalsePositivePatterns(S, days) ==
    LET recent(T) == {r \in Active(T) : r.created > Today - days}
        groups(R, field) == {[value |-> v, count |-> Cardinality(Group(R, field, v))] :
                                 v \in {r[field] : r \in R}}
    IN  [bySource |-> groups(recent(S[2]), "source"),
         byCountry |-> groups({r \in recent(S[3]) : r.country # None}, "country"),
         byDay |-> groups(recent(S[4]), "created")]

(* One country stands out when more than seven in ten rows are from it. *)
CountryInsight(byCountry) ==
    LET total == Sum([g \in byCountry |-> g.count])
    IN  byCountry # {} /\ Max({g.count : g \in byCountry}) * 100 > 70 * total

-----------------------------------------------------------------------------
(* Collection history *)

Successes(T, from) == {r \in T.runs : r.success /\ r.date >= from}

WideWindowFirst(S) ==
    IF ~Answered(S) THEN [shown |-> FALSE]
    ELSE [shown |-> TRUE,
          month |-> Items(Successes(S[1], Today - 30)),
          week |-> Items(Successes(S[2], Today - 7)),
          today |-> Items({r \in Successes(S[3], Today) : r.date = Today}),
          total |-> Total(S[4]), active |-> ActiveOf(S[4]),
          sources |-> [v \in {r.service : r \in S[5].runs} |->
                           LET of == Group(S[5].runs, "service", v)
                           IN  [collections |-> Cardinality(of), items |-> Items(of),
                                successes |-> Cardinality({r \in of : r.success})]]]

GetCollectionStats(S) ==
    IF ~Answered(S) THEN [shown |-> FALSE]
    ELSE [shown |-> TRUE,
          today |-> Items({r \in Successes(S[1], Today) : r.date = Today}),
          week |-> Items(Successes(S[2], Today - 7)),
          month |-> Items(Successes(S[3], Today - 30)),
          total |-> Total(S[4]), active |-> ActiveOf(S[4]),
          sources |-> [v \in {r.service : r \in S[5].runs} |->
                           LET of == Group(S[5].runs, "service", v)
                           IN  [collections |-> Cardinality(of), items |-> Items(of),
                                successes |-> Cardinality({r \in of : r.success}),
                                last |-> Latest(of, "date")]]]

GetChartData(T) ==
    LET recent == Successes(T, Today - 30)
    IN  [d \in {r.date : r \in recent} |-> Items(Group(recent, "date", d))]

(* Every run counts, and the rate of success is always 0. *)
GetCollectionStatistics(S) ==
    LET recent(T, days) == {r \in T.runs : r.date >= Today - days}
        by(R, field) == [v \in {r[field] : r \in R} |->
                             [collections |-> Cardinality(Group(R, field, v)),
                              items |-> Items(Group(R, field, v))]]
    IN  IF ~Answered(S) THEN [collections |-> 0, items |-> 0, rate |-> 0]
        ELSE [collections |-> Cardinality(recent(S[1], 30)), items |-> Items(recent(S[1], 30)),
              byDay |-> by(recent(S[2], 7), "date"),
              byType |-> by(recent(S[3], 30), "service"),
              rate |-> 0]

ApiCollectionStats(T) ==
    LET recent == {r \in T.runs : r.date > Today - 30}
    IN  [collections |-> Cardinality(recent), items |-> Items(recent),
         successes |-> Cardinality({r \in recent : r.success})]

(* The latest run, any of them when several are of one moment. *)
GetSourceStatus(T, enabled, service) ==
    LET runs == {r \in T.runs : r.service = service}
        last == {r \in runs : \A q \in runs : q.date <= r.date}
    IN  IF ~enabled THEN {"disabled"}
        ELSE IF ~T.up THEN {"error"}
        ELSE IF runs = {} THEN {"never_collected"}
        ELSE {IF r.success THEN "success" ELSE "failed" : r \in last}

GetCollectionStatus(T) ==
    LET recent == {r \in T.runs : r.date >= Today - 7}
        last == {r \in recent : \A q \in recent : q.date <= r.date}
    IN  IF recent = {} THEN {"unknown"} ELSE {IF r.success THEN "success" ELSE "failed" : r \in last}

-----------------------------------------------------------------------------
(* A client reads a list to its end *)

ListNames == {"list", "json", "unified", "active", "whitelist", "blacklist", "table", "activeIps",
              "history", "webList", "webHistory", "search"}
Named(name, T) ==
    CASE name = "list"       -> GetBlacklistList(T)
      [] name = "json"       -> GetBlacklistJson(T)
      [] name = "unified"    -> GetUnifiedList(T, None, None, None)
      [] name = "active"     -> GetUnifiedList(T, "blacklist", TRUE, None)
      [] name = "whitelist"  -> GetWhitelist(T)
      [] name = "blacklist"  -> GetBlacklist(T)
      [] name = "table"      -> GetTableData(T)
      [] name = "activeIps"  -> GetActiveIps(T)
      [] name = "history"    -> GetCollectionHistory(T, None)
      [] name = "webList"    -> ApiBlacklistList(T, FALSE, None)
      [] name = "webHistory" -> ApiCollectionHistory(T)
      [] name = "search"     -> SearchCollectedIps(T, None, None, None, None, None)

Identity(r) == IF "type" \in DOMAIN r THEN <<r.type, r.id>> ELSE <<"row", r.id>>
Identities(rows) == {Identity(r) : r \in rows}

PageOverlapping(order, page) ==
    SubSeq(order, Max({1, (page - 1) * Size}), Min({page * Size, Len(order)}))

(* LIMIT size OFFSET (page - 1) * size *)
PageOf(order, page) ==
    SubSeq(order, (page - 1) * Size + 1, Min({page * Size, Len(order)}))

StartWalk(name) ==
    /\ walk = None
    /\ db.up
    /\ walk' = [list |-> name, page |-> 0, pages |-> 1, seen |-> <<>>, disturbed |-> "no",
                start |-> Identities(Named(name, db).of),
                half |-> FALSE, total |-> 0, got |-> <<>>, torn |-> 0]
    /\ UNCHANGED tables

(* An answer counts the rows and reads a page of them in two statements, and  *)
(* either may come first.                                                     *)
CountsAlwaysFirst(name) == TRUE

CountsFirst(name) ==
    name \in {"json", "unified", "active", "whitelist", "blacklist", "table", "search"}

CountOnce(w) ==
    [w EXCEPT !.total = IF w.page = 0 THEN Cardinality(Named(w.list, db).of) ELSE w.pages * Size]

CountRows(w) == [w EXCEPT !.total = Cardinality(Named(w.list, db).of)]

ReadRows(w, order) ==
    LET page == PageOf(order, w.page + 1)
    IN  [w EXCEPT !.got = [i \in DOMAIN page |-> Identity(page[i])]]

Asked(w) == [w EXCEPT !.half = FALSE, !.total = 0, !.got = <<>>]

FirstStatement ==
    /\ walk # None
    /\ walk.page < walk.pages /\ ~walk.half
    /\ db.up
    /\ \E order \in Orders(Named(walk.list, db)) :
           LET w == IF CountsFirst(walk.list) THEN CountRows(walk) ELSE ReadRows(walk, order)
           IN  walk' = [w EXCEPT !.half = TRUE, !.torn = 0]
    /\ UNCHANGED tables

(* The client goes on to the number of pages the last answer gave. *)
SecondStatement ==
    /\ walk # None
    /\ walk.half
    /\ db.up
    /\ \E order \in Orders(Named(walk.list, db)) :
           LET w == IF CountsFirst(walk.list) THEN ReadRows(walk, order) ELSE CountRows(walk)
           IN  walk' = Asked([w EXCEPT !.page = @ + 1, !.pages = Pages(w.total, Size),
                                       !.seen = @ \o w.got])
    /\ UNCHANGED tables

(* A request whose database is away shows nothing, and is made again; one     *)
(* list answers it with no rows and no pages.                                 *)
RequestFails ==
    /\ walk # None
    /\ walk.page < walk.pages
    /\ ~db.up
    /\ \/ /\ walk.list = "json"
          /\ walk' = [Asked(walk) EXCEPT !.page = @ + 1, !.pages = 0, !.disturbed = "other"]
       \/ /\ walk.list # "json" /\ walk.half
          /\ walk' = Asked(walk)
    /\ UNCHANGED tables

EndWalk ==
    /\ walk # None
    /\ walk.page >= walk.pages
    /\ walk' = None
    /\ UNCHANGED tables

Next ==
    \/ Write
    \/ \E name \in ListNames : StartWalk(name)
    \/ FirstStatement \/ SecondStatement \/ RequestFails
    \/ EndWalk

Spec == InitTables /\ [][Next]_<<tables, walk>>

-----------------------------------------------------------------------------
(* Properties *)

(* What n statements of one answer may see while one write is committed. *)
Snapshots(n) == {[i \in 1 .. n |-> IF i <= k THEN before ELSE db] : k \in 0 .. n}
Rest(n)      == [i \in 1 .. n |-> db]

(* Whoever asks is told to block the same addresses: the feeds that        *)
(* FortiGate pulls, the connector with every risk level taken together,    *)
(* Cloudflare's list and the check of one address.                         *)
FeedsAgree ==
    LET ips(answer) == {r.ip : r \in answer.rows}
        levels == UNION {GetJsonConnector(Rest(2), l, None).rows : l \in {"high", "medium", "low"}}
    IN  /\ ips(GetThreatFeed(db)) = ips(GetBlocklist(db))
        /\ ips(GetThreatFeed(db)) = ips(ActiveIpsAnswer(Rest(2)))
        /\ ips(GetThreatFeed(db)) = ips(FetchActiveIps(db))
        /\ levels = GetJsonConnector(Rest(2), None, None).rows
        /\ \A r \in levels : r \in GetJsonConnector(Rest(2), Risk(r.confidence), None).rows
        /\ {ip \in Ips : CheckBlacklist(db, ip)} = {r.ip : r \in levels}
        /\ ips(GetThreatFeed(db)) \cap {w.ip : w \in GetWhitelist(db).of} = {}

(* A firewall that pulls while the database is away is told of the failure: *)
(* an empty list with status 200 would lift every block.                    *)
FeedsFailLoudly ==
    /\ \A S \in Snapshots(1) : ~Answered(S) =>
           GetThreatFeed(S[1]).status # 200 /\ GetBlocklist(S[1]).status # 200
    /\ \A S \in Snapshots(2) : ~Answered(S) =>
           ActiveIpsAnswer(S).status # 200 /\ GetJsonConnector(S, None, None).status # 200

Mixed(S, field) == {None, "UNKNOWN"} \subseteq {r[field] : r \in S}

(* While nobody writes, every page and every service shows the same number  *)
(* of rows and of active ones, and a breakdown adds up to what it breaks    *)
(* down, unless countries NULL and UNKNOWN, which the manual form stores,   *)
(* share a label.                                                           *)
FiguresAgree ==
    LET shown == {GetDashboardStats(Rest(8)), GetMonitoringDashboard(Rest(3)),
                  GetSystemStats(Rest(5)), GetAnalyticsOverview(db), GetUnifiedStatistics(Rest(2)),
                  GetBlacklistStats(Rest(3)), GetExpiryStats(db), ApiStats(Rest(2)),
                  Dashboard(Rest(3)), GetRealStats(Rest(5)), GetCollectionStats(Rest(5))}
        stats == GetDashboardStats(Rest(8))
        active == Active(db)
    IN  db.up =>
        /\ \A a \in shown : a.total = Total(db) /\ a.active = ActiveOf(db)
        /\ GetDashboardCounts(Rest(3)).total = Total(db)
        /\ GetPerformanceMetrics(Rest(2)).active = GetSystemStats(Rest(5)).active
        /\ GetSystemStats(Rest(5)).expired = GetExpiryStats(db).inactive
        /\ Cardinality(BlacklistListAnswer(Rest(2)).rows) = BlacklistJsonAnswer(Rest(2)).total
        /\ Sum([l \in GetStatistics(db).black |-> l.count]) = stats.total
        /\ Sum([l \in GetStatistics(db).black |-> l.active]) = stats.active
        /\ \A d \in stats.bySource \cup Dashboard(Rest(3)).byData : Sum(d) = stats.active
        /\ ~Mixed(active, "country") => \A d \in stats.byCountry : Sum(d) = stats.active
        /\ \A d \in stats.byReason : Sum(d) = stats.active
        /\ Sum([l \in ApiStats(Rest(2)).bySource |-> l.count]) = stats.active
        /\ ApiStats(Rest(2)).bySource =
               {[label |-> c.label, count |-> c.value] : c \in ApiChartData(db, "source")}
        /\ LET found == AnalyzeFalsePositivePatterns(Rest(4), 30)
               sum(groups) == Sum([g \in groups |-> g.count])
           IN  /\ sum(found.bySource) = sum(found.byDay)
               /\ sum(found.byCountry) <= sum(found.bySource)
               /\ CountryInsight(found.byCountry) => sum(found.byDay) <= stats.active
        /\ LET days == GetDetectionTimeline(Rest(2), None).timeline
           IN  Sum([d \in DOMAIN days |-> days[d].count]) = stats.total

(* A share is a share: of the rows its own statement counted, whatever was  *)
(* committed since the total above it was read.                             *)
SharesAreShares ==
    \A S \in Snapshots(5) :
        LET stats == GetSystemStats(S)
        IN  stats.shown =>
            /\ \A v \in DOMAIN stats.shares : stats.shares[v].count <= stats.shares[v].of
            /\ \A v \in DOMAIN stats.shares :
                   Sum([u \in DOMAIN stats.shares |-> stats.shares[u].count])
                       <= stats.shares[v].of

(* The figures of collection are read from four snapshots, the narrow       *)
(* window first: no run or clean-up that is committed in between makes a    *)
(* week exceed its month, a chart its month, or a source's success its runs. *)
HistoryWindowsNest ==
    /\ \A S \in Snapshots(5) :
           LET stats == GetCollectionStats(S)
           IN  stats.shown =>
               /\ stats.today <= stats.week
               /\ stats.week <= stats.month
               /\ stats.month <= Sum([v \in DOMAIN stats.sources |-> stats.sources[v].items])
               /\ \A v \in DOMAIN stats.sources :
                      stats.sources[v].successes <= stats.sources[v].collections
    /\ db.up =>
           /\ Sum(GetChartData(db)) = GetCollectionStats(Rest(5)).month
           /\ GetCollectionStats(Rest(5)).month <= GetCollectionStatistics(Rest(3)).items
           /\ ApiCollectionStats(db).items <= GetCollectionStatistics(Rest(3)).items
           /\ Cardinality(GetRecentHistory(db, None, 30).of) =
                  GetCollectionStatistics(Rest(3)).collections
           /\ GetUnifiedStatistics(Rest(2)).successful <=
                  GetCollectionStatistics(Rest(3)).collections
           /\ GetSourceStatus(db, TRUE, "REGTECH") \cap GetCollectionStatus(db) = {} =>
                  \/ GetCollectionStatus(db) = {"unknown"}
                  \/ \E r \in db.runs : r.service # "REGTECH"

Finished == walk # None /\ walk.page >= walk.pages

(* Reading a list page by page shows every row exactly once when nobody     *)
(* writes and no two rows tie in what it is sorted by.                      *)
PagesPartition ==
    Finished /\ walk.disturbed = "no" /\ Sorted(Named(walk.list, db)) =>
        /\ ToSet(walk.seen) = walk.start
        /\ Len(walk.seen) = Cardinality(walk.start)

Lost == walk.start \ ToSet(walk.seen)

(* The newest row comes first, so rows inserted during the walk push others *)
(* onto later pages: some are shown twice.  None is lost from a list that   *)
(* reads its rows before it counts them; one that counts first loses no     *)
(* more than were inserted between the two statements of its last page,     *)
(* where its client does not look for another.                              *)
InsertionsLoseLittle ==
    Finished /\ walk.disturbed # "other" /\ Sorted(Named(walk.list, db))
             /\ walk.list # "activeIps" =>
        /\ walk.list \in {"list", "history", "webList", "webHistory"} => Lost = {}
        /\ Cardinality(Lost) <= walk.torn

(* What an export, a log or a proposal holds is told by other answers too:  *)
(* proposals to exempt an address are enforced rows, an export of active    *)
(* rows is part of the list, the web copy shows no row active that the      *)
(* table does not.                                                          *)
ListsTellTheSame ==
    /\ \A r \in GetWhitelistCandidates(db, 1).of : r \in Enforced(db)
    /\ \A includeEmpty \in BOOLEAN :
           ExportRawData(db, TRUE, None, includeEmpty).of \subseteq Active(db)
    /\ ExportRawData(db, FALSE, None, FALSE).of \cup
       {r \in db.rows : RawColumns(r.raw) = {}} = db.rows
    /\ \A r \in ApiBlacklistExportRaw(db, FALSE, None, TRUE).of : RawColumns(r.raw) # {}
    /\ \A r \in db.rows : ShownActive(r) => r.active
    /\ \A r \in GetActiveSessions(db, 30).of :
           SessionStatus(r) = "active" \/ r \notin Enforced(db)
    /\ db.up => ConnectorOrder(db, None, None) = GetActiveIps(db)
    /\ \A r \in db.rows : r \in SearchIps(db, {r.ip}).of
    /\ db.up =>
           Cardinality(GetRealTimeDetectionLog(db).of) >= GetAnalyticsOverview(db).today

(* Firewalls are told of the same addresses whatever they ask, and of a     *)
(* failure where there is one (fortinet/, threat_feed.py).                  *)
FirewallsAreTold == FeedsAgree /\ FeedsFailLoudly

(* The figures of all pages and services fit together, at rest and across a *)
(* commit between their statements (dashboard_api.py, analytics.py, ...).   *)
FiguresHold == FiguresAgree /\ SharesAreShares /\ HistoryWindowsNest

(* A list read to its end shows what was there, but for rows that came in   *)
(* between a count and the last page read after it, and the lists, exports  *)
(* and proposals do not contradict each other (blacklist/core.py, ...).     *)
ListsAreComplete == PagesPartition /\ InsertionsLoseLittle /\ ListsTellTheSame

=============================================================================
