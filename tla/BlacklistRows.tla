--------------------------- MODULE BlacklistRows ---------------------------
(***************************************************************************)
(* The rows of blacklist_ips and everybody who writes them: requests of    *)
(* administrators (app/core/routes/api/ip_management and .../blacklist),   *)
(* the collector's batches (collector/core/database), its nightly job      *)
(* (collector/scheduler/cleanup.py), the expiry check at the start of the  *)
(* app (expiry_service.py) and the app's scheduler (scheduler_service.py). *)
(*                                                                         *)
(* A row is blocked while is_active is set; its dates say when it should   *)
(* be.  Nobody keeps the two together but these writers.  Texts, counters  *)
(* and timestamps are left out.  A transaction is one step: no two of its  *)
(* statements read and then write the same row, except where two steps are *)
(* given (the jobs that read ids first, the requests that count first).    *)
(***************************************************************************)
EXTENDS Integers, FiniteSets

CONSTANTS
    Ips,
    Administered, \* bound: the addresses that requests are about
    Http,        \* the worker threads of the app
    None,        \* SQL's NULL
    Retention,   \* the "3 months" of the nightly job, in days
    Detections,  \* detection dates that requests and items carry
    Removals,    \* removal dates that requests and items carry
    Tables,      \* the rows that earlier days may have left
    Faults,      \* the kinds of mishap that may happen
    MaxDay,      \* bound: days 0 .. MaxDay
    MaxWrites,   \* bound: requests and batches of a behaviour
    MaxMishaps   \* bound: mishaps of a behaviour

Dates == 0 .. MaxDay + 1

ASSUME NoneAssumption == None \notin Int
ASSUME IpsAssumption == Administered \subseteq Ips
ASSUME DateAssumption ==
    /\ Detections \subseteq Dates \cup {None}
    /\ Removals \subseteq Dates \cup {None}
    /\ Retention \in Nat
ASSUME BoundAssumption == MaxDay \in Nat /\ MaxWrites \in Nat /\ MaxMishaps \in Nat

VARIABLES
    day,         \* CURRENT_DATE
    rows,        \* the table, by its unique key
    serial,      \* the last id given
    batch,       \* the items the collector has filtered and not yet stored
    due,         \* is the nightly job of this day still to run
    app,         \* where the start of the app is
    loop,        \* where the app's scheduler is
    ids,         \* the rows, as <<key, id>>, that each job of the app has read
    adding,      \* the address whose rows a request has counted, or None
    (* history *)
    cleaned,     \* day of the last nightly job
    touched,     \* rows written by a request or a batch since
    overtaken,   \* rows a job deactivated since although their dates hold
    renewed,     \* rows updated in place while each job holds ids
    writes,
    mishaps

jobs    == <<app, loop, ids>>
history == <<cleaned, touched, overtaken, renewed>>
vars    == <<day, rows, serial, batch, due, jobs, adding, history, writes, mishaps>>

Sources == {"REGTECH", "MANUAL", "BATCH"}
Keys    == Ips \X Sources
Jobs    == {"expiry", "loop"}

Row    == [id : Nat, active : BOOLEAN, detection : Dates \cup {None}, removal : Dates \cup {None}]
Item   == [detection : Detections, removal : Removals]
Absent == [id |-> 0, active |-> FALSE, detection |-> None, removal |-> None]
Empty  == [i \in {} |-> None]

Present == {k \in Keys : rows[k].id # 0}

(* The constraint detection_before_removal; a NULL passes. *)
Valid(detection, removal) ==
    (removal # None /\ detection # None) => detection <= removal

Past(removal) == removal # None /\ removal < day

SettledAtOnce(row) ==
    IF row.removal # None THEN [row EXCEPT !.active = row.removal > day]
    ELSE row

(* What the nightly job makes of a row. *)
Settled(row) ==
    IF row.removal # None THEN [row EXCEPT !.active = row.removal >= day]
    ELSE [row EXCEPT !.active =
            @ /\ ~(row.detection # None /\ row.detection < day - Retention)]

----------------------------------------------------------------------------

(* Rows of earlier days have the id 1, and the nightly job has seen them. *)
ASSUME TableAssumption ==
    \A t \in Tables :
        /\ t \in [Keys -> Row]
        /\ \A k \in Keys :
              \/ t[k] = Absent
              \/ /\ t[k].id = 1
                 /\ Valid(t[k].detection, t[k].removal)
                 /\ t[k].removal # None => t[k].active

Init ==
    /\ day = 0 /\ due = FALSE /\ cleaned = 0
    /\ rows \in Tables
    /\ serial = 1 /\ batch = Empty
    /\ app = "down" /\ loop = "off" /\ ids = [j \in Jobs |-> {}]
    /\ adding = [h \in Http |-> None]
    /\ touched = {} /\ overtaken = {} /\ renewed = [j \in Jobs |-> {}]
    /\ writes = 0 /\ mishaps = 0

Mishap(kind) == kind \in Faults /\ mishaps < MaxMishaps /\ mishaps' = mishaps + 1

(* A committed write of the rows in `new`, which keep their ids or get one. *)
Commit(new) ==
    LET ks    == DOMAIN new
        fresh == {k \in ks : rows[k].id = 0}
    IN  /\ writes < MaxWrites /\ writes' = writes + 1
        /\ rows' = [k \in Keys |->
                      IF k \notin ks THEN rows[k]
                      ELSE [new[k] EXCEPT !.id = IF k \in fresh THEN serial + 1 ELSE rows[k].id]]
        /\ serial' = IF fresh = {} THEN serial ELSE serial + 1
        /\ touched' = touched \cup ks
        /\ overtaken' = overtaken \ ks
        /\ renewed' = [j \in Jobs |-> IF ids[j] = {} THEN {} ELSE renewed[j] \cup (ks \ fresh)]
        /\ UNCHANGED <<day, due, jobs, cleaned, mishaps>>

Delete(ks) ==
    /\ writes < MaxWrites /\ writes' = writes + 1
    /\ ks \cap Present # {}
    /\ rows' = [k \in Keys |-> IF k \in ks THEN Absent ELSE rows[k]]
    /\ touched' = touched \cup ks
    /\ overtaken' = overtaken \ ks
    /\ UNCHANGED <<day, serial, due, jobs, cleaned, renewed, mishaps>>

NewRow(active, detection, removal) ==
    [id |-> 0, active |-> active, detection |-> detection, removal |-> removal]

----------------------------------------------------------------------------
(* Requests of administrators.  A request that finds nothing to change, or *)
(* violates a constraint, is rolled back and left out.                     *)

(* create_blacklist replaces the flag and both dates of an existing row. *)
CreateBlacklist ==
    /\ \E k \in Administered \X Sources, a \in BOOLEAN, d \in Detections, r \in Removals :
          Valid(d, r) /\ Commit([x \in {k} |-> NewRow(a, d, r)])
    /\ UNCHANGED <<batch, adding>>

(* update_blacklist changes any of the three. *)
UpdateBlacklist ==
    /\ \E k \in Present \cap (Administered \X Sources), a \in BOOLEAN :
       \E d \in Detections \cup {rows[k].detection}, r \in Removals \cup {rows[k].removal} :
          Valid(d, r) /\ Commit([x \in {k} |-> NewRow(a, d, r)])
    /\ UNCHANGED <<batch, adding>>

DeleteBlacklist ==
    /\ \E k \in Present \cap (Administered \X Sources) : Delete({k})
    /\ UNCHANGED <<batch, adding>>

(* manual_add_ip counts the rows of the address and inserts its row later; *)
(* it checks every source, the constraint only its own.                    *)
ManualAddCounts(h) ==
    /\ adding[h] = None
    /\ \E ip \in Administered :
          /\ Present \cap ({ip} \X Sources) = {}
          /\ adding' = [adding EXCEPT ![h] = ip]
    /\ UNCHANGED <<day, rows, serial, batch, due, jobs, history, writes, mishaps>>

ManualAddInserts(h) ==
    /\ adding[h] # None
    /\ LET k == <<adding[h], "MANUAL">> IN
          IF rows[k].id = 0
          THEN Commit([x \in {k} |-> NewRow(TRUE, day, None)])
          ELSE UNCHANGED <<day, rows, serial, due, jobs, history, writes, mishaps>>
    /\ adding' = [adding EXCEPT ![h] = None]
    /\ UNCHANGED batch

(* manual_remove_ip and batch_remove_blacklist delete by address. *)
RemoveIps ==
    /\ \E S \in SUBSET Administered : Delete(S \X Sources)
    /\ UNCHANGED <<batch, adding>>

(* batch_add_blacklist: ON CONFLICT DO NOTHING. *)
BatchAdd ==
    /\ \E S \in SUBSET Administered :
          LET new == {k \in S \X {"BATCH"} : rows[k].id = 0} IN
          new # {} /\ Commit([k \in new |-> NewRow(TRUE, day, None)])
    /\ UNCHANGED <<batch, adding>>

----------------------------------------------------------------------------
(* The collector: save_blacklist_ips drops items whose removal date is     *)
(* over, and stores the rest in one transaction.                           *)

CollectorFilters ==
    /\ batch = Empty /\ writes < MaxWrites
    /\ \E S \in SUBSET Ips : \E items \in [S -> Item] :
          LET kept == {ip \in S : ~Past(items[ip].removal)} IN
          /\ kept # {}
          /\ batch' = [ip \in kept |-> items[ip]]
    /\ UNCHANGED <<day, rows, serial, due, jobs, adding, history, writes, mishaps>>

(* INSERT ... ON CONFLICT DO UPDATE: a known row keeps its detection date, *)
(* and its removal date unless the item brings one.                        *)
Upsert(k, item) ==
    LET known   == rows[k].id # 0
        removal == IF item.removal = None /\ known THEN rows[k].removal ELSE item.removal
    IN  NewRow(~Past(removal), IF known THEN rows[k].detection ELSE item.detection, removal)

CollectorInsertsAnything ==
    /\ batch # Empty /\ batch' = Empty
    /\ Commit([k \in (DOMAIN batch) \X {"REGTECH"} |-> Upsert(k, batch[k[1]])])
    /\ UNCHANGED adding

CollectorInsertsRest ==
    /\ batch # Empty /\ batch' = Empty
    /\ LET new  == [k \in (DOMAIN batch) \X {"REGTECH"} |-> Upsert(k, batch[k[1]])]
           good == {k \in DOMAIN new : Valid(new[k].detection, new[k].removal)}
       IN  Commit([k \in good |-> new[k]])
    /\ UNCHANGED adding

(* One row that violates the constraint takes the whole batch with it. *)
CollectorInserts ==
    /\ batch # Empty /\ batch' = Empty
    /\ LET new == [k \in (DOMAIN batch) \X {"REGTECH"} |-> Upsert(k, batch[k[1]])] IN
          IF \A k \in DOMAIN new : Valid(new[k].detection, new[k].removal)
          THEN Commit(new)
          ELSE UNCHANGED <<day, rows, serial, due, jobs, history, writes, mishaps>>
    /\ UNCHANGED adding

CollectorFails ==
    /\ batch # Empty /\ batch' = Empty
    /\ Mishap("save")
    /\ UNCHANGED <<day, rows, serial, due, jobs, adding, history, writes>>

(* The nightly job, one transaction of three updates.  It is due at        *)
(* midnight and runs when the collector's scheduler comes to it.           *)
Cleanup ==
    /\ due /\ due' = FALSE /\ cleaned' = day
    /\ rows' = [k \in Keys |-> IF k \in Present THEN Settled(rows[k]) ELSE Absent]
    /\ touched' = {} /\ overtaken' = {}
    /\ UNCHANGED <<day, serial, batch, jobs, adding, renewed, writes, mishaps>>

(* The transaction fails, or the collector is down at midnight. *)
CleanupFails ==
    /\ due /\ due' = FALSE
    /\ Mishap("cleanup")
    /\ UNCHANGED <<day, rows, serial, batch, jobs, adding, history, writes>>

----------------------------------------------------------------------------
(* Jobs of the app.  Both read the ids of expired rows and then deactivate *)
(* the rows with these ids; expiry_service does so in two transactions,    *)
(* the scheduler in one at READ COMMITTED, which is the same here.         *)

Expired == {<<k, rows[k].id>> : k \in {x \in Present : rows[x].active /\ Past(rows[x].removal)}}

ReadIds(j) == ids' = [ids EXCEPT ![j] = Expired]

Forget(js) ==
    /\ ids' = [j \in Jobs |-> IF j \in js THEN {} ELSE ids[j]]
    /\ renewed' = [j \in Jobs |-> IF j \in js THEN {} ELSE renewed[j]]

DeactivateKeys(j) ==
    LET hit == {k \in Present : k \in {i[1] : i \in ids[j]}} IN
    /\ rows' = [k \in Keys |-> IF k \in hit THEN [rows[k] EXCEPT !.active = FALSE] ELSE rows[k]]
    /\ overtaken' = overtaken \cup {k \in hit : rows[k].active /\ ~Past(rows[k].removal)}
    /\ Forget({j})

Deactivate(j) ==
    LET hit == {k \in Present : <<k, rows[k].id>> \in ids[j]} IN
    /\ rows' = [k \in Keys |-> IF k \in hit THEN [rows[k] EXCEPT !.active = FALSE] ELSE rows[k]]
    /\ overtaken' = overtaken \cup {k \in hit : rows[k].active /\ ~Past(rows[k].removal)}
    /\ Forget({j})

Start ==
    /\ app = "down" /\ app' = "checking"
    /\ UNCHANGED <<day, rows, serial, batch, due, loop, ids, adding, history, writes, mishaps>>

ExpiryReads ==
    /\ app = "checking"
    /\ app' = IF Expired = {} THEN "checked" ELSE "updating"
    /\ ReadIds("expiry")
    /\ UNCHANGED <<day, rows, serial, batch, due, loop, adding, history, writes, mishaps>>

ExpiryUpdates ==
    /\ app = "updating" /\ app' = "checked"
    /\ Deactivate("expiry")
    /\ UNCHANGED <<day, serial, batch, due, loop, adding, cleaned, touched, writes, mishaps>>

ExpiryFails ==
    /\ app \in {"checking", "updating"} /\ app' = "checked"
    /\ Forget({"expiry"})
    /\ Mishap("expiry")
    /\ UNCHANGED <<day, rows, serial, batch, due, loop, adding, cleaned, touched, overtaken, writes>>

(* start_background_tasks starts the loop when REGTECH credentials are     *)
(* enabled at that moment; nothing in the app stops it.                    *)
StartScheduler ==
    /\ app = "checked" /\ app' = "serving"
    /\ loop' \in {"off", "waiting"}
    /\ UNCHANGED <<day, rows, serial, batch, due, ids, adding, history, writes, mishaps>>

(* The loop's collection fails or finds nothing (its collector is a stub   *)
(* and the thread has no application context); then it reads the ids.      *)
LoopReads ==
    /\ loop = "waiting" /\ Expired # {} /\ loop' = "updating"
    /\ ReadIds("loop")
    /\ UNCHANGED <<day, rows, serial, batch, due, app, adding, history, writes, mishaps>>

LoopUpdates ==
    /\ loop = "updating" /\ loop' = "waiting"
    /\ Deactivate("loop")
    /\ UNCHANGED <<day, serial, batch, due, app, adding, cleaned, touched, writes, mishaps>>

LoopFails ==
    /\ loop = "updating" /\ loop' = "waiting"
    /\ Forget({"loop"})
    /\ Mishap("expiry")
    /\ UNCHANGED <<day, rows, serial, batch, due, app, adding, cleaned, touched, overtaken, writes>>

(* The app ends and will be restarted; requests in flight end with it. *)
Crash ==
    /\ app # "down" /\ app' = "down" /\ loop' = "off"
    /\ Forget(Jobs)
    /\ adding' = [h \in Http |-> None]
    /\ Mishap("crash")
    /\ UNCHANGED <<day, rows, serial, batch, due, cleaned, touched, overtaken, writes>>

NextDay ==
    /\ day < MaxDay /\ day' = day + 1
    /\ due' = TRUE
    /\ UNCHANGED <<rows, serial, batch, jobs, adding, history, writes, mishaps>>

Next ==
    \/ CreateBlacklist \/ UpdateBlacklist \/ DeleteBlacklist
    \/ \E h \in Http : ManualAddCounts(h) \/ ManualAddInserts(h)
    \/ RemoveIps \/ BatchAdd
    \/ CollectorFilters \/ CollectorInserts \/ CollectorFails
    \/ Cleanup \/ CleanupFails
    \/ Start \/ ExpiryReads \/ ExpiryUpdates \/ ExpiryFails
    \/ StartScheduler \/ LoopReads \/ LoopUpdates \/ LoopFails
    \/ Crash \/ NextDay

Spec == Init /\ [][Next]_vars

----------------------------------------------------------------------------

(* Every variable keeps its type, and no row violates the constraint on    *)
(* its dates.                                                              *)
TypeOK ==
    /\ day \in 0 .. MaxDay /\ due \in BOOLEAN /\ cleaned \in 0 .. MaxDay
    /\ rows \in [Keys -> Row]
    /\ \A k \in Keys : Valid(rows[k].detection, rows[k].removal)
    /\ serial \in 1 .. MaxWrites + 1
    /\ batch = Empty \/ batch \in UNION {[S -> Item] : S \in SUBSET Ips}
    /\ app \in {"down", "checking", "updating", "checked", "serving"}
    /\ loop \in {"off", "waiting", "updating"}
    /\ ids \in [Jobs -> SUBSET (Keys \X (1 .. MaxWrites + 1))]
    /\ adding \in [Http -> Ips \cup {None}]
    /\ touched \subseteq Keys /\ overtaken \subseteq Keys
    /\ renewed \in [Jobs -> SUBSET Keys]
    /\ writes \in 0 .. MaxWrites /\ mishaps \in 0 .. MaxMishaps

(* The flag of a row that no request and no batch has written since the    *)
(* last nightly job follows its dates: in force on its last day still,     *)
(* over on the day after, retired when it is old and has no end.  What an  *)
(* administrator or a job of the app did against the dates is undone by    *)
(* the next night (cleanup.py:16-45 against all other writers).            *)
RowsFollowTheirDates ==
    \A k \in Present \ (touched \cup overtaken) :
        LET row == rows[k] IN
        /\ row.removal # None /\ row.removal >= day => row.active
        /\ row.removal # None /\ row.removal < cleaned => ~row.active
        /\ row.removal = None /\ row.detection # None /\ row.detection < cleaned - Retention
              => ~row.active

(* A job of the app deactivates a row whose dates hold only if that very   *)
(* row was renewed between its two statements; a row that was deleted and  *)
(* entered again meanwhile is left alone (expiry_service.py:35-65,         *)
(* scheduler_service.py:116-146).                                          *)
JobsErrOnlyWhenRenewed ==
    [][\A k \in overtaken' \ overtaken : \E j \in Jobs : ids[j] # {} /\ k \in renewed[j]]_vars

(* A batch of the collector is stored as a whole or not at all, and in     *)
(* every row that it stores the flag agrees with the removal date of that  *)
(* day (database/service.py:284-330, queries.py:145-182).                  *)
BatchesAreWhole ==
    [][(batch # Empty /\ batch' = Empty /\ rows' # rows) =>
          \A ip \in DOMAIN batch :
              LET row == rows'[<<ip, "REGTECH">>] IN
              /\ row.id # 0
              /\ row.active = ~Past(row.removal)
              /\ batch[ip].removal \in {None, row.removal}]_vars

=============================================================================
