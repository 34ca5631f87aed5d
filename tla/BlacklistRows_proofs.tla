------------------------ MODULE BlacklistRows_proofs ------------------------
(***************************************************************************)
(* Proofs about BlacklistRows, for every set of addresses, dates and       *)
(* tables, every retention and every number of days, writes and mishaps:   *)
(* types, the flags follow the dates, the jobs of the app err only on rows *)
(* renewed under them, and a batch is stored as a whole.                   *)
(***************************************************************************)
EXTENDS BlacklistRows, TLAPS

-----------------------------------------------------------------------------
(* Types *)

RowsType ==
    /\ rows \in [Keys -> Row]
    /\ \A k \in Keys :
           /\ Valid(rows[k].detection, rows[k].removal)
           /\ rows[k].id <= serial
           /\ rows[k].id = 0 => rows[k] = Absent

NumbersType ==
    /\ day \in 0 .. MaxDay
    /\ cleaned \in 0 .. day
    /\ writes \in 0 .. MaxWrites
    /\ mishaps \in 0 .. MaxMishaps
    /\ serial \in 1 .. writes + 1

SetsType ==
    /\ ids \in [Jobs -> SUBSET (Keys \X (1 .. serial))]
    /\ touched \subseteq Keys
    /\ overtaken \subseteq Keys
    /\ renewed \in [Jobs -> SUBSET Keys]

PlacesType ==
    /\ due \in BOOLEAN
    /\ app \in {"down", "checking", "updating", "checked", "serving"}
    /\ loop \in {"off", "waiting", "updating"}

PendingType ==
    /\ adding \in [Http -> Ips \cup {None}]
    /\ batch = Empty \/ \E S \in SUBSET Ips : batch \in [S -> Item]

TypeInv == RowsType /\ NumbersType /\ SetsType /\ PlacesType /\ PendingType

-----------------------------------------------------------------------------
(* Which actions change what *)

(* What writers hand to Commit: rows of the table that respect the dates. *)
Writable == {new \in UNION {[ks -> Row] : ks \in SUBSET Keys} :
                \A k \in DOMAIN new : Valid(new[k].detection, new[k].removal)}

Written == \E new \in Writable : Commit(new)

LEMMA NewRowType ==
  ASSUME NEW a \in BOOLEAN, NEW d \in Dates \cup {None}, NEW r \in Dates \cup {None}
  PROVE  NewRow(a, d, r) \in Row
  BY DEF NewRow, Row

LEMMA OneRowWritten ==
  ASSUME NEW k \in Keys, NEW a \in BOOLEAN, NEW d \in Dates \cup {None},
         NEW r \in Dates \cup {None}, Valid(d, r), Commit([x \in {k} |-> NewRow(a, d, r)])
  PROVE  Written
<1> DEFINE new == [x \in {k} |-> NewRow(a, d, r)]
<1>1. new \in [{k} -> Row]
  BY NewRowType
<1>2. \A x \in DOMAIN new : Valid(new[x].detection, new[x].removal)
  BY DEF NewRow
<1>3. new \in Writable
  BY <1>1, <1>2 DEF Writable
<1>4. QED
  BY <1>3 DEF Written

LEMMA RequestsWrite ==
  ASSUME TypeInv
  PROVE  /\ CreateBlacklist \/ UpdateBlacklist \/ BatchAdd => Written
         /\ \A h \in Http : ManualAddInserts(h) =>
                Written \/ UNCHANGED <<day, rows, serial, due, jobs, history, writes, mishaps>>
<1>1. Administered \X Sources \subseteq Keys
  BY IpsAssumption DEF Keys
<1>2. ASSUME CreateBlacklist PROVE Written
  <2>1. PICK k \in Administered \X Sources, a \in BOOLEAN, d \in Detections, r \in Removals :
            Valid(d, r) /\ Commit([x \in {k} |-> NewRow(a, d, r)])
    BY <1>2 DEF CreateBlacklist
  <2>2. k \in Keys /\ d \in Dates \cup {None} /\ r \in Dates \cup {None}
    BY <1>1, DateAssumption
  <2>3. QED
    BY <2>1, <2>2, OneRowWritten
<1>3. ASSUME UpdateBlacklist PROVE Written
  <2>1. PICK k \in Present \cap (Administered \X Sources), a \in BOOLEAN :
            \E d \in Detections \cup {rows[k].detection}, r \in Removals \cup {rows[k].removal} :
                Valid(d, r) /\ Commit([x \in {k} |-> NewRow(a, d, r)])
    BY <1>3 DEF UpdateBlacklist
  <2>2. PICK d \in Detections \cup {rows[k].detection}, r \in Removals \cup {rows[k].removal} :
            Valid(d, r) /\ Commit([x \in {k} |-> NewRow(a, d, r)])
    BY <2>1
  <2>3. k \in Keys /\ rows[k] \in Row
    BY <1>1 DEF TypeInv, RowsType
  <2>4. d \in Dates \cup {None} /\ r \in Dates \cup {None}
    BY <2>3, DateAssumption DEF Row
  <2>5. QED
    BY <2>2, <2>3, <2>4, OneRowWritten
<1>4. day \in Dates
  BY BoundAssumption DEF TypeInv, NumbersType, Dates
<1>5. ASSUME BatchAdd PROVE Written
  <2>1. PICK S \in SUBSET Administered :
            LET new == {k \in S \X {"BATCH"} : rows[k].id = 0} IN
            new # {} /\ Commit([k \in new |-> NewRow(TRUE, day, None)])
    BY <1>5 DEF BatchAdd
  <2> DEFINE ks  == {k \in S \X {"BATCH"} : rows[k].id = 0}
             new == [k \in ks |-> NewRow(TRUE, day, None)]
  <2>2. ks \subseteq Keys
    BY IpsAssumption DEF Keys, Sources
  <2>3. NewRow(TRUE, day, None) \in Row
    BY <1>4, NewRowType
  <2>4. new \in [ks -> Row] /\ DOMAIN new = ks
    BY <2>3
  <2>5. \A k \in ks : Valid(new[k].detection, new[k].removal)
    BY DEF NewRow, Valid
  <2>6. new \in Writable
    BY <2>2, <2>4, <2>5 DEF Writable
  <2>7. QED
    BY <2>1, <2>6 DEF Written
<1>6. ASSUME NEW h \in Http, ManualAddInserts(h),
             ~ UNCHANGED <<day, rows, serial, due, jobs, history, writes, mishaps>>
      PROVE  Written
  <2>1. adding[h] \in Ips
    BY <1>6 DEF ManualAddInserts, TypeInv, PendingType
  <2>2. <<adding[h], "MANUAL">> \in Keys
    BY <2>1 DEF Keys, Sources
  <2>3. Commit([x \in {<<adding[h], "MANUAL">>} |-> NewRow(TRUE, day, None)])
    BY <1>6 DEF ManualAddInserts
  <2>4. Valid(day, None)
    BY DEF Valid
  <2>5. QED
    BY <1>4, <2>2, <2>3, <2>4, OneRowWritten
<1>7. QED
  BY <1>2, <1>3, <1>5, <1>6

LEMMA UpsertType ==
  ASSUME TypeInv, NEW k \in Keys, NEW item \in Item
  PROVE  Upsert(k, item) \in Row
<1>1. rows[k] \in Row
  BY DEF TypeInv, RowsType
<1>2. rows[k].detection \in Dates \cup {None} /\ rows[k].removal \in Dates \cup {None}
  BY <1>1 DEF Row
<1>3. item.detection \in Dates \cup {None} /\ item.removal \in Dates \cup {None}
  BY DateAssumption DEF Item
<1> DEFINE known   == rows[k].id # 0
           removal == IF item.removal = None /\ known THEN rows[k].removal ELSE item.removal
           detection == IF known THEN rows[k].detection ELSE item.detection
<1>4. removal \in Dates \cup {None} /\ detection \in Dates \cup {None}
  BY <1>2, <1>3
<1>5. (~ Past(removal)) \in BOOLEAN
  OBVIOUS
<1> HIDE DEF removal, detection, known
<1>6. NewRow(~ Past(removal), detection, removal) \in Row
  BY <1>4, <1>5, NewRowType
<1>7. QED
  BY <1>6 DEF Upsert, removal, detection, known

LEMMA CollectorWrites ==
  ASSUME TypeInv, CollectorInserts
  PROVE  Written \/ UNCHANGED <<day, rows, serial, due, jobs, history, writes, mishaps>>
<1>1. PICK S \in SUBSET Ips : batch \in [S -> Item]
  BY DEF TypeInv, PendingType, CollectorInserts
<1> DEFINE ks  == (DOMAIN batch) \X {"REGTECH"}
           new == [k \in ks |-> Upsert(k, batch[k[1]])]
<1>2. ks \subseteq Keys
  BY <1>1 DEF Keys, Sources
<1>3. \A k \in ks : Upsert(k, batch[k[1]]) \in Row
  BY <1>1, <1>2, UpsertType
<1>4. new \in [ks -> Row] /\ DOMAIN new = ks
  BY <1>3
<1>5. CASE \A k \in DOMAIN new : Valid(new[k].detection, new[k].removal)
  <2>1. Commit(new)
    BY <1>5 DEF CollectorInserts
  <2>2. new \in Writable
    BY <1>2, <1>4, <1>5 DEF Writable
  <2>3. QED
    BY <2>1, <2>2 DEF Written
<1>6. CASE ~ \A k \in DOMAIN new : Valid(new[k].detection, new[k].removal)
  BY <1>6 DEF CollectorInserts
<1>7. QED
  BY <1>5, <1>6

(* The steps that reach the table, and the steps of the jobs' memory.       *)
Deactivates(j) ==
    Deactivate(j) /\ UNCHANGED <<day, serial, cleaned, touched, writes>>

Reads(j) ==
    ReadIds(j) /\ UNCHANGED <<day, rows, serial, cleaned, touched, overtaken, renewed, writes>>

Forgets == \E js \in SUBSET Jobs :
    Forget(js) /\ UNCHANGED <<day, rows, serial, cleaned, touched, overtaken, writes>>

Deletes == \E ks \in SUBSET Keys :
    Delete(ks)

Stays == UNCHANGED <<day, rows, serial, ids, history, writes>>

LEMMA TableChanges ==
  ASSUME TypeInv, [Next]_vars
  PROVE  \/ Written
         \/ Deletes
         \/ Cleanup
         \/ \E j \in Jobs : Deactivates(j) \/ Reads(j)
         \/ Forgets
         \/ NextDay
         \/ Stays
<1> USE DEF jobs, history, Stays
<1>1. ASSUME DeleteBlacklist \/ RemoveIps
      PROVE  Deletes
  <2>1. Administered \X Sources \subseteq Keys
    BY IpsAssumption DEF Keys
  <2>2. ASSUME NEW S \in SUBSET Administered PROVE S \X Sources \subseteq Keys
    BY IpsAssumption DEF Keys
  <2>3. QED
    BY <1>1, <2>1, <2>2 DEF DeleteBlacklist, RemoveIps, Deletes
<1>2. ASSUME NEW h \in Http, ManualAddCounts(h) \/ ManualAddInserts(h)
      PROVE  Written \/ Stays
  BY <1>2, RequestsWrite DEF ManualAddCounts
<1>3. ASSUME CollectorFilters \/ CollectorInserts \/ CollectorFails
      PROVE  Written \/ Stays
  BY <1>3, CollectorWrites DEF CollectorFilters, CollectorFails
<1>4. ASSUME CreateBlacklist \/ UpdateBlacklist \/ BatchAdd
      PROVE  Written
  BY <1>4, RequestsWrite
<1>5. ASSUME ExpiryReads \/ LoopReads
      PROVE  \E j \in Jobs : Reads(j)
  BY <1>5 DEF ExpiryReads, LoopReads, Reads, Jobs
<1>6. ASSUME ExpiryUpdates \/ LoopUpdates
      PROVE  \E j \in Jobs : Deactivates(j)
  BY <1>6 DEF ExpiryUpdates, LoopUpdates, Deactivates, Jobs
<1>7. ASSUME ExpiryFails \/ LoopFails \/ Crash
      PROVE  Forgets
  BY <1>7 DEF ExpiryFails, LoopFails, Crash, Forgets, Jobs
<1>8. ASSUME CleanupFails \/ Start \/ StartScheduler \/ UNCHANGED vars
      PROVE  Stays
  BY <1>8 DEF CleanupFails, Start, StartScheduler, vars
<1>9. QED
  BY <1>1, <1>2, <1>3, <1>4, <1>5, <1>6, <1>7, <1>8 DEF Next

-----------------------------------------------------------------------------
(* Type correctness *)

LEMMA AbsentType == Absent \in Row /\ Absent.id = 0 /\ Valid(Absent.detection, Absent.removal)
  BY DEF Absent, Row, Valid

LEMMA InitTypeInv == Init => TypeInv
<1> SUFFICES ASSUME Init PROVE TypeInv
  OBVIOUS
<1>1. NumbersType
  BY BoundAssumption DEF Init, NumbersType
<1>2. RowsType
  <2>1. rows \in [Keys -> Row] /\ serial = 1
    BY TableAssumption DEF Init
  <2>2. ASSUME NEW k \in Keys
        PROVE  rows[k] = Absent \/ (rows[k].id = 1 /\ Valid(rows[k].detection, rows[k].removal))
    BY TableAssumption DEF Init
  <2>3. ASSUME NEW k \in Keys
        PROVE  /\ Valid(rows[k].detection, rows[k].removal)
               /\ rows[k].id <= serial
               /\ rows[k].id = 0 => rows[k] = Absent
    <3>1. CASE rows[k] = Absent
      BY <2>1, <3>1, AbsentType
    <3>2. CASE rows[k].id = 1 /\ Valid(rows[k].detection, rows[k].removal)
      BY <2>1, <3>2
    <3>3. QED
      BY <2>2, <3>1, <3>2
  <2>4. QED
    BY <2>1, <2>3 DEF RowsType
<1>3. SetsType
  BY DEF Init, SetsType
<1>4. PlacesType
  BY DEF Init, PlacesType
<1>5. PendingType
  BY DEF Init, PendingType
<1>6. QED
  BY <1>1, <1>2, <1>3, <1>4, <1>5 DEF TypeInv

(* What a commit and a deletion make of one row. *)
LEMMA CommittedRow ==
  ASSUME TypeInv, NEW new \in Writable, Commit(new), NEW k \in Keys
  PROVE  /\ rows' = [x \in Keys |-> rows'[x]]
         /\ k \notin DOMAIN new => rows'[k] = rows[k]
         /\ k \in DOMAIN new =>
                /\ rows'[k] \in Row
                /\ rows'[k].detection = new[k].detection
                /\ rows'[k].removal = new[k].removal
                /\ rows'[k].active = new[k].active
                /\ rows[k].id # 0 => rows'[k].id = rows[k].id
                /\ rows[k].id = 0 => rows'[k].id = serial + 1 /\ serial' = serial + 1
<1> DEFINE i == IF k \in {x \in DOMAIN new : rows[x].id = 0} THEN serial + 1 ELSE rows[k].id
<1>1. rows' = [x \in Keys |->
                  IF x \notin DOMAIN new THEN rows[x]
                  ELSE [new[x] EXCEPT !.id = IF x \in {y \in DOMAIN new : rows[y].id = 0}
                                             THEN serial + 1 ELSE rows[x].id]]
  BY DEF Commit
<1>2. serial' = IF {x \in DOMAIN new : rows[x].id = 0} = {} THEN serial ELSE serial + 1
  BY DEF Commit
<1>3. ASSUME k \in DOMAIN new
      PROVE  new[k] \in Row /\ rows'[k] = [new[k] EXCEPT !.id = i]
  BY <1>1, <1>3 DEF Writable
<1>4. rows[k] \in Row /\ serial \in Nat
  BY DEF TypeInv, RowsType, NumbersType
<1>5. i \in Nat
  BY <1>4 DEF Row
<1>6. k \in DOMAIN new =>
          /\ rows'[k] \in Row
          /\ rows'[k].detection = new[k].detection
          /\ rows'[k].removal = new[k].removal
          /\ rows'[k].active = new[k].active
          /\ rows'[k].id = i
  <2> SUFFICES ASSUME k \in DOMAIN new
               PROVE  /\ rows'[k] \in Row
                      /\ rows'[k].detection = new[k].detection
                      /\ rows'[k].removal = new[k].removal
                      /\ rows'[k].active = new[k].active
                      /\ rows'[k].id = i
    OBVIOUS
  <2> HIDE DEF i
  <2>1. new[k] \in Row /\ rows'[k] = [new[k] EXCEPT !.id = i]
    BY <1>3
  <2>2. /\ [new[k] EXCEPT !.id = i] \in Row
        /\ [new[k] EXCEPT !.id = i].id = i
        /\ [new[k] EXCEPT !.id = i].detection = new[k].detection
        /\ [new[k] EXCEPT !.id = i].removal = new[k].removal
        /\ [new[k] EXCEPT !.id = i].active = new[k].active
    BY <1>5, <2>1 DEF Row
  <2>3. QED
    BY <2>1, <2>2
<1>7. k \in DOMAIN new /\ rows[k].id = 0 => serial' = serial + 1
  BY <1>2
<1>8. QED
  BY <1>1, <1>6, <1>7

LEMMA CommittedNumbers ==
  ASSUME TypeInv, NEW new \in Writable, Commit(new)
  PROVE  /\ NumbersType'
         /\ serial' \in {serial, serial + 1}
         /\ UNCHANGED <<ids, cleaned, day>>
         /\ touched' = touched \cup DOMAIN new
         /\ overtaken' = overtaken \ DOMAIN new
         /\ DOMAIN new \subseteq Keys
<1>1. serial' = serial \/ serial' = serial + 1
  BY DEF Commit
<1>2. writes' = writes + 1 /\ writes < MaxWrites /\ UNCHANGED <<day, cleaned, mishaps>>
  BY DEF Commit
<1>3. NumbersType'
  BY <1>1, <1>2, BoundAssumption DEF TypeInv, NumbersType
<1>4. QED
  BY <1>1, <1>2, <1>3 DEF Commit, jobs, Writable

LEMMA DeactivatedRow ==
  ASSUME TypeInv, NEW j \in Jobs, Deactivate(j), NEW k \in Keys
  PROVE  /\ rows' = [x \in Keys |-> rows'[x]]
         /\ rows'[k] \in Row
         /\ rows'[k].id = rows[k].id
         /\ rows'[k].detection = rows[k].detection
         /\ rows'[k].removal = rows[k].removal
         /\ \/ rows'[k] = rows[k]
            \/ /\ rows'[k].active = FALSE
               /\ k \in Present /\ <<k, rows[k].id>> \in ids[j]
               /\ rows[k].active /\ ~ Past(rows[k].removal) => k \in overtaken'
<1> DEFINE hit == {x \in Present : <<x, rows[x].id>> \in ids[j]}
<1>1. rows' = [x \in Keys |-> IF x \in hit THEN [rows[x] EXCEPT !.active = FALSE] ELSE rows[x]]
  BY DEF Deactivate
<1>2. overtaken' = overtaken \cup {x \in hit : rows[x].active /\ ~ Past(rows[x].removal)}
  BY DEF Deactivate
<1>3. rows[k] \in Row
  BY DEF TypeInv, RowsType
<1>4. CASE k \notin hit
  BY <1>1, <1>3, <1>4
<1>5. CASE k \in hit
  <2>1. rows'[k] = [rows[k] EXCEPT !.active = FALSE]
    BY <1>1, <1>5
  <2>2. /\ [rows[k] EXCEPT !.active = FALSE] \in Row
        /\ [rows[k] EXCEPT !.active = FALSE].active = FALSE
        /\ [rows[k] EXCEPT !.active = FALSE].id = rows[k].id
        /\ [rows[k] EXCEPT !.active = FALSE].detection = rows[k].detection
        /\ [rows[k] EXCEPT !.active = FALSE].removal = rows[k].removal
    BY <1>3 DEF Row
  <2>3. k \in Present /\ <<k, rows[k].id>> \in ids[j]
    BY <1>5
  <2>4. rows[k].active /\ ~ Past(rows[k].removal) => k \in overtaken'
    BY <1>2, <1>5
  <2> HIDE DEF hit
  <2>5. QED
    BY <1>1, <2>1, <2>2, <2>3, <2>4
<1>6. QED
  BY <1>4, <1>5

LEMMA SettledRow ==
  ASSUME TypeInv, Cleanup, NEW k \in Keys
  PROVE  /\ rows' = [x \in Keys |-> rows'[x]]
         /\ rows'[k] \in Row
         /\ rows'[k].id = rows[k].id
         /\ rows'[k].detection = rows[k].detection
         /\ rows'[k].removal = rows[k].removal
         /\ rows[k].id # 0 => rows'[k] = Settled(rows[k])
         /\ rows[k].id = 0 => rows'[k] = Absent
<1>1. rows' = [x \in Keys |-> IF x \in Present THEN Settled(rows[x]) ELSE Absent]
  BY DEF Cleanup
<1>2. rows[k] \in Row
  BY DEF TypeInv, RowsType
<1>3. ASSUME NEW a \in BOOLEAN
      PROVE  /\ [rows[k] EXCEPT !.active = a] \in Row
             /\ [rows[k] EXCEPT !.active = a].id = rows[k].id
             /\ [rows[k] EXCEPT !.active = a].detection = rows[k].detection
             /\ [rows[k] EXCEPT !.active = a].removal = rows[k].removal
  BY <1>2 DEF Row
<1>4. PICK a \in BOOLEAN : Settled(rows[k]) = [rows[k] EXCEPT !.active = a]
  <2>1. (rows[k].removal >= day) \in BOOLEAN
    OBVIOUS
  <2>2. (rows[k].active /\ ~(rows[k].detection # None /\ rows[k].detection < day - Retention)) \in BOOLEAN
    OBVIOUS
  <2>3. QED
    BY <2>1, <2>2 DEF Settled
<1>5. CASE rows[k].id # 0
  <2>1. rows'[k] = Settled(rows[k])
    BY <1>1, <1>5 DEF Present
  <2>2. QED
    BY <1>1, <1>3, <1>4, <1>5, <2>1
<1>6. CASE rows[k].id = 0
  <2>1. rows[k] = Absent
    BY <1>6 DEF TypeInv, RowsType
  <2>2. rows'[k] = Absent
    BY <1>1, <1>6 DEF Present
  <2>3. QED
    BY <1>1, <1>2, <1>6, <2>1, <2>2
<1>7. QED
  BY <1>5, <1>6

LEMMA NextRowsType ==
  ASSUME TypeInv, [Next]_vars
  PROVE  RowsType'
<1>1. ASSUME NEW new \in Writable, Commit(new)
      PROVE  RowsType'
  <2>1. serial \in Nat /\ serial' \in {serial, serial + 1} /\ serial \in 1 .. writes + 1
    BY <1>1, CommittedNumbers DEF TypeInv, NumbersType
  <2>2. ASSUME NEW k \in Keys
        PROVE  /\ rows' = [x \in Keys |-> rows'[x]]
               /\ rows'[k] \in Row
               /\ Valid(rows'[k].detection, rows'[k].removal)
               /\ rows'[k].id <= serial'
               /\ rows'[k].id = 0 => rows'[k] = Absent
    <3>1. /\ rows[k] \in Row /\ Valid(rows[k].detection, rows[k].removal)
          /\ rows[k].id <= serial
          /\ rows[k].id = 0 => rows[k] = Absent
      BY DEF TypeInv, RowsType
    <3>2. rows[k].id \in Nat
      BY <3>1 DEF Row
    <3>3. CASE k \notin DOMAIN new
      <4>1. rows'[k] = rows[k] /\ rows' = [x \in Keys |-> rows'[x]]
        BY <1>1, <3>3, CommittedRow
      <4>2. QED
        BY <2>1, <3>1, <3>2, <4>1
    <3>4. CASE k \in DOMAIN new
      <4>1. Valid(new[k].detection, new[k].removal)
        BY <3>4 DEF Writable
      <4>2. /\ rows' = [x \in Keys |-> rows'[x]]
            /\ rows'[k] \in Row
            /\ rows'[k].detection = new[k].detection /\ rows'[k].removal = new[k].removal
            /\ rows[k].id # 0 => rows'[k].id = rows[k].id
            /\ rows[k].id = 0 => rows'[k].id = serial + 1 /\ serial' = serial + 1
        BY <1>1, <3>4, CommittedRow
      <4>3. rows'[k].id <= serial' /\ rows'[k].id # 0
        BY <2>1, <3>1, <3>2, <4>2
      <4>4. QED
        BY <4>1, <4>2, <4>3
    <3>5. QED
      BY <3>3, <3>4
  <2>3. Keys = {} => rows' \in [Keys -> Row]
    BY <1>1 DEF Commit
  <2>4. QED
    BY <2>2, <2>3 DEF RowsType
<1>2. ASSUME NEW ks \in SUBSET Keys, Delete(ks)
      PROVE  RowsType'
  <2>1. rows' = [k \in Keys |-> IF k \in ks THEN Absent ELSE rows[k]] /\ serial' = serial
    BY <1>2 DEF Delete
  <2>2. serial \in Nat
    BY DEF TypeInv, NumbersType
  <2>3. QED
    BY <2>1, <2>2, AbsentType DEF TypeInv, RowsType
<1>3. CASE Cleanup
  <2>1. serial' = serial /\ serial \in Nat
    BY <1>3 DEF Cleanup, TypeInv, NumbersType
  <2>2. \A k \in Keys :
            /\ rows' = [x \in Keys |-> rows'[x]]
            /\ rows'[k] \in Row
            /\ rows'[k].id = rows[k].id
            /\ rows'[k].detection = rows[k].detection
            /\ rows'[k].removal = rows[k].removal
            /\ rows[k].id = 0 => rows'[k] = Absent
    BY <1>3, SettledRow
  <2>3. Keys = {} => rows' \in [Keys -> Row]
    BY <1>3 DEF Cleanup
  <2>4. rows' \in [Keys -> Row]
    BY <2>2, <2>3
  <2>5. QED
    BY <2>1, <2>2, <2>4 DEF TypeInv, RowsType
<1>4. ASSUME NEW j \in Jobs, Deactivates(j)
      PROVE  RowsType'
  <2>1. serial' = serial
    BY <1>4 DEF Deactivates
  <2>2. \A k \in Keys :
            /\ rows' = [x \in Keys |-> rows'[x]]
            /\ rows'[k] \in Row
            /\ rows'[k].id = rows[k].id
            /\ rows'[k].detection = rows[k].detection
            /\ rows'[k].removal = rows[k].removal
            /\ rows[k].id = 0 => rows'[k] = rows[k]
    BY <1>4, DeactivatedRow DEF Deactivates, Present
  <2>3. Keys = {} => rows' \in [Keys -> Row]
    BY <1>4 DEF Deactivates, Deactivate
  <2>4. rows' \in [Keys -> Row]
    BY <2>2, <2>3
  <2>5. QED
    BY <2>1, <2>2, <2>4 DEF TypeInv, RowsType
<1>5. ASSUME UNCHANGED <<rows, serial>>
      PROVE  RowsType'
  BY <1>5 DEF TypeInv, RowsType
<1>6. QED
  BY <1>1, <1>2, <1>3, <1>4, <1>5, TableChanges
     DEF Written, Deletes, Reads, Forgets, NextDay, Stays

(* Requests and batches leave the places of the jobs alone. *)
LEMMA WritersStayAway ==
  ASSUME \/ CreateBlacklist \/ UpdateBlacklist \/ DeleteBlacklist \/ RemoveIps \/ BatchAdd
         \/ CollectorFilters \/ CollectorInserts
         \/ \E h \in Http : ManualAddCounts(h) \/ ManualAddInserts(h)
  PROVE  UNCHANGED <<app, loop, due, mishaps>>
<1>1. ASSUME NEW new, Commit(new)
      PROVE  UNCHANGED <<app, loop, due, mishaps>>
  BY <1>1 DEF Commit, jobs
<1>2. ASSUME NEW ks, Delete(ks)
      PROVE  UNCHANGED <<app, loop, due, mishaps>>
  BY <1>2 DEF Delete, jobs
<1>3. CASE CreateBlacklist \/ UpdateBlacklist \/ BatchAdd
  BY <1>1, <1>3 DEF CreateBlacklist, UpdateBlacklist, BatchAdd
<1>4. CASE DeleteBlacklist \/ RemoveIps
  BY <1>2, <1>4 DEF DeleteBlacklist, RemoveIps
<1>5. CASE CollectorFilters \/ CollectorInserts
  BY <1>1, <1>5 DEF CollectorFilters, CollectorInserts, jobs
<1>6. ASSUME NEW h \in Http, ManualAddCounts(h) \/ ManualAddInserts(h)
      PROVE  UNCHANGED <<app, loop, due, mishaps>>
  BY <1>1, <1>6 DEF ManualAddCounts, ManualAddInserts, jobs
<1>7. QED
  BY <1>3, <1>4, <1>5, <1>6

LEMMA NextNumbersType ==
  ASSUME TypeInv, [Next]_vars
  PROVE  NumbersType'
<1> USE BoundAssumption DEF TypeInv, NumbersType
<1>1. mishaps' \in 0 .. MaxMishaps
  <2>1. mishaps' = mishaps \/ (mishaps < MaxMishaps /\ mishaps' = mishaps + 1)
    BY WritersStayAway
       DEF Next, CollectorFails, Cleanup, CleanupFails, Start, ExpiryReads, ExpiryUpdates,
       ExpiryFails, StartScheduler, LoopReads, LoopUpdates, LoopFails, Crash, NextDay,
       Mishap, vars
  <2>2. QED
    BY <2>1
<1>2. \A new \in Writable : Commit(new) => NumbersType'
  BY CommittedNumbers
<1>3. CASE Deletes
  BY <1>1, <1>3 DEF Deletes, Delete
<1>4. CASE NextDay \/ Cleanup
  BY <1>1, <1>4 DEF NextDay, Cleanup, history
<1>5. ASSUME UNCHANGED <<day, serial, cleaned, writes>>
      PROVE  NumbersType'
  BY <1>1, <1>5
<1>6. QED
  BY <1>2, <1>3, <1>4, <1>5, TableChanges
     DEF Written, Deactivates, Reads, Forgets, Stays, history

LEMMA NextSetsType ==
  ASSUME TypeInv, [Next]_vars
  PROVE  SetsType'
<1> USE DEF TypeInv, SetsType
<1>1. NumbersType /\ NumbersType' /\ RowsType /\ RowsType'
  BY NextNumbersType, NextRowsType
<1>2. serial \in Nat /\ serial' \in Nat
  BY <1>1 DEF NumbersType
<1>3. \A j \in Jobs : ids[j] \subseteq Keys \X (1 .. serial)
  OBVIOUS
<1>4. ASSUME NEW new \in Writable, Commit(new)
      PROVE  SetsType'
  <2>1. 1 .. serial \subseteq 1 .. serial'
    BY <1>2, <1>4, CommittedNumbers
  <2>2. ids' \in [Jobs -> SUBSET (Keys \X (1 .. serial'))]
    BY <1>3, <1>4, <2>1, CommittedNumbers
  <2>3. renewed' = [j \in Jobs |-> IF ids[j] = {} THEN {}
                       ELSE renewed[j] \cup (DOMAIN new \ {x \in DOMAIN new : rows[x].id = 0})]
    BY <1>4 DEF Commit
  <2>4. DOMAIN new \subseteq Keys
    BY <1>4, CommittedNumbers
  <2>5. renewed' \in [Jobs -> SUBSET Keys]
    BY <2>3, <2>4
  <2>6. QED
    BY <1>4, <2>2, <2>4, <2>5, CommittedNumbers
<1>5. ASSUME NEW js \in SUBSET Jobs, Forget(js), serial' = serial
      PROVE  /\ ids' \in [Jobs -> SUBSET (Keys \X (1 .. serial'))]
             /\ renewed' \in [Jobs -> SUBSET Keys]
  BY <1>5 DEF Forget
<1>6. CASE Deletes
  BY <1>6 DEF Deletes, Delete, jobs
<1>7. CASE Cleanup
  BY <1>7 DEF Cleanup, jobs
<1>8. ASSUME NEW j \in Jobs, Deactivates(j)
      PROVE  SetsType'
  <2>1. Forget({j}) /\ serial' = serial /\ touched' = touched
    BY <1>8 DEF Deactivates, Deactivate
  <2>2. overtaken' \subseteq Keys
    BY <1>8 DEF Deactivates, Deactivate, Present
  <2>3. QED
    BY <1>5, <2>1, <2>2
<1>9. ASSUME NEW j \in Jobs, Reads(j)
      PROVE  SetsType'
  <2>1. ids' = [ids EXCEPT ![j] = Expired] /\ UNCHANGED <<serial, renewed, touched, overtaken>>
    BY <1>9 DEF Reads, ReadIds
  <2>2. ASSUME NEW k \in Present
        PROVE  <<k, rows[k].id>> \in Keys \X (1 .. serial)
    <3>1. k \in Keys /\ rows[k].id # 0 /\ rows[k].id <= serial /\ rows[k] \in Row
      BY DEF Present, RowsType
    <3>2. rows[k].id \in Nat
      BY <3>1 DEF Row
    <3>3. QED
      BY <1>2, <3>1, <3>2
  <2>3. Expired \subseteq Keys \X (1 .. serial)
    BY <2>2 DEF Expired
  <2>4. QED
    BY <2>1, <2>3
<1>10. CASE Forgets
  BY <1>5, <1>10 DEF Forgets
<1>11. CASE NextDay \/ Stays
  BY <1>11 DEF NextDay, Stays, jobs, history
<1>12. QED
  BY <1>4, <1>6, <1>7, <1>8, <1>9, <1>10, <1>11, TableChanges DEF Written

LEMMA NextPlacesType ==
  ASSUME TypeInv, [Next]_vars
  PROVE  PlacesType'
<1> USE DEF TypeInv, PlacesType
<1>1. app' \in {"down", "checking", "updating", "checked", "serving"}
  BY WritersStayAway
     DEF Next, CollectorFails, Cleanup, CleanupFails, Start, ExpiryReads, ExpiryUpdates,
     ExpiryFails, StartScheduler, LoopReads, LoopUpdates, LoopFails, Crash, NextDay, jobs, vars
<1>2. loop' \in {"off", "waiting", "updating"}
  BY WritersStayAway
     DEF Next, CollectorFails, Cleanup, CleanupFails, Start, ExpiryReads, ExpiryUpdates,
     ExpiryFails, StartScheduler, LoopReads, LoopUpdates, LoopFails, Crash, NextDay, jobs, vars
<1>3. due' \in BOOLEAN
  BY WritersStayAway
     DEF Next, CollectorFails, Cleanup, CleanupFails, Start, ExpiryReads, ExpiryUpdates,
     ExpiryFails, StartScheduler, LoopReads, LoopUpdates, LoopFails, Crash, NextDay, jobs, vars
<1>4. QED
  BY <1>1, <1>2, <1>3

LEMMA NextPendingType ==
  ASSUME TypeInv, [Next]_vars
  PROVE  PendingType'
<1> USE DEF TypeInv, PendingType
<1>1. adding' \in [Http -> Ips \cup {None}]
  <2>1. CASE UNCHANGED adding
    BY <2>1
  <2>2. ASSUME NEW h \in Http, ManualAddCounts(h) \/ ManualAddInserts(h)
        PROVE  adding' \in [Http -> Ips \cup {None}]
    BY <2>2, IpsAssumption DEF ManualAddCounts, ManualAddInserts
  <2>3. CASE Crash
    BY <2>3 DEF Crash
  <2>4. QED
    BY <2>1, <2>2, <2>3
       DEF Next, CreateBlacklist, UpdateBlacklist, DeleteBlacklist, RemoveIps, BatchAdd,
       CollectorFilters, CollectorInserts, CollectorFails, Cleanup, CleanupFails, Start,
       ExpiryReads, ExpiryUpdates, ExpiryFails, StartScheduler, LoopReads, LoopUpdates,
       LoopFails, NextDay, vars
<1>2. batch' = Empty \/ \E S \in SUBSET Ips : batch' \in [S -> Item]
  <2>1. CASE UNCHANGED batch
    BY <2>1
  <2>2. CASE CollectorFilters
    <3>1. PICK S \in SUBSET Ips : \E items \in [S -> Item] :
              batch' = [ip \in {x \in S : ~ Past(items[x].removal)} |-> items[ip]]
      BY <2>2 DEF CollectorFilters
    <3>2. PICK items \in [S -> Item] :
              batch' = [ip \in {x \in S : ~ Past(items[x].removal)} |-> items[ip]]
      BY <3>1
    <3>3. {x \in S : ~ Past(items[x].removal)} \in SUBSET Ips
      OBVIOUS
    <3>4. QED
      BY <3>2, <3>3
  <2>3. CASE CollectorInserts \/ CollectorFails
    BY <2>3 DEF CollectorInserts, CollectorFails
  <2>4. QED
    BY <2>1, <2>2, <2>3
       DEF Next, CreateBlacklist, UpdateBlacklist, DeleteBlacklist, ManualAddCounts,
       ManualAddInserts, RemoveIps, BatchAdd, Cleanup, CleanupFails, Start,
       ExpiryReads, ExpiryUpdates, ExpiryFails, StartScheduler, LoopReads, LoopUpdates,
       LoopFails, Crash, NextDay, vars
<1>3. QED
  BY <1>1, <1>2

LEMMA NextTypeInv ==
  ASSUME TypeInv, [Next]_vars
  PROVE  TypeInv'
  BY NextRowsType, NextNumbersType, NextSetsType, NextPlacesType, NextPendingType DEF TypeInv

(* Every variable keeps its type, no row violates the constraint on its     *)
(* dates, and no job holds an id that was never given.                      *)
THEOREM TypeCorrect == Spec => []TypeOK
<1>1. TypeInv => TypeOK
  <2> SUFFICES ASSUME TypeInv PROVE TypeOK
    OBVIOUS
  <2>1. /\ day \in 0 .. MaxDay /\ cleaned \in 0 .. MaxDay
        /\ serial \in 1 .. MaxWrites + 1
        /\ writes \in 0 .. MaxWrites /\ mishaps \in 0 .. MaxMishaps
        /\ 1 .. serial \subseteq 1 .. MaxWrites + 1
    BY BoundAssumption DEF TypeInv, NumbersType
  <2>2. ids \in [Jobs -> SUBSET (Keys \X (1 .. MaxWrites + 1))]
    BY <2>1 DEF TypeInv, SetsType
  <2>3. batch = Empty \/ batch \in UNION {[S -> Item] : S \in SUBSET Ips}
    BY DEF TypeInv, PendingType
  <2>4. /\ rows \in [Keys -> Row]
        /\ \A k \in Keys : Valid(rows[k].detection, rows[k].removal)
    BY DEF TypeInv, RowsType
  <2>5. due \in BOOLEAN
    BY DEF TypeInv, PlacesType
  <2>6. /\ app \in {"down", "checking", "updating", "checked", "serving"}
        /\ loop \in {"off", "waiting", "updating"}
        /\ adding \in [Http -> Ips \cup {None}]
        /\ touched \subseteq Keys /\ overtaken \subseteq Keys
        /\ renewed \in [Jobs -> SUBSET Keys]
    BY DEF TypeInv, PlacesType, PendingType, SetsType
  <2>7. QED
    BY <2>1, <2>2, <2>3, <2>4, <2>5, <2>6 DEF TypeOK
<1>2. QED
  BY InitTypeInv, NextTypeInv, <1>1, PTL DEF Spec

-----------------------------------------------------------------------------
(* The flags follow the dates *)

(* The conclusion of RowsFollowTheirDates, for one row. *)
Follows(row) ==
    /\ row.removal # None /\ row.removal >= day => row.active
    /\ row.removal # None /\ row.removal < cleaned => ~ row.active
    /\ row.removal = None /\ row.detection # None /\ row.detection < cleaned - Retention
          => ~ row.active

LEMMA NextRowsFollow ==
  ASSUME TypeInv, RowsFollowTheirDates, [Next]_vars
  PROVE  RowsFollowTheirDates'
<1> SUFFICES ASSUME NEW k \in Keys, rows'[k].id # 0, k \notin touched', k \notin overtaken'
             PROVE  Follows(rows[k])'
  BY DEF RowsFollowTheirDates, Follows, Present
<1> DEFINE Before == rows[k].id # 0 /\ k \notin touched /\ k \notin overtaken
<1>1. Before => Follows(rows[k])
  BY DEF RowsFollowTheirDates, Follows, Present
<1>2. rows[k] \in Row /\ day \in Nat /\ cleaned \in Nat /\ Retention \in Nat
  BY DateAssumption, BoundAssumption DEF TypeInv, RowsType, NumbersType
<1>3. rows[k].removal \in Dates \cup {None} /\ rows[k].detection \in Dates \cup {None}
  BY <1>2 DEF Row
<1>4. rows[k].removal # None => rows[k].removal \in Int
  BY <1>3, BoundAssumption DEF Dates
<1>5. ASSUME rows'[k] = rows[k], touched \subseteq touched', overtaken \subseteq overtaken',
             cleaned' = cleaned, day' = day
      PROVE  Follows(rows[k])'
  <2>1. Before
    BY <1>5
  <2>2. QED
    BY <1>1, <1>5, <2>1 DEF Follows
<1>6. ASSUME NEW new \in Writable, Commit(new)
      PROVE  Follows(rows[k])'
  <2>1. k \notin DOMAIN new
    BY <1>6, CommittedNumbers
  <2>2. rows'[k] = rows[k]
    BY <1>6, <2>1, CommittedRow
  <2>3. Before /\ cleaned' = cleaned /\ day' = day
    BY <1>6, <2>1, <2>2, CommittedNumbers
  <2>4. QED
    BY <1>1, <2>2, <2>3 DEF Follows
<1>7. ASSUME NEW ks \in SUBSET Keys, Delete(ks)
      PROVE  Follows(rows[k])'
  <2>1. rows'[k] = rows[k] /\ Before /\ cleaned' = cleaned /\ day' = day
    BY <1>7 DEF Delete
  <2>2. QED
    BY <1>1, <2>1 DEF Follows
<1>8. CASE Cleanup
  <2>1. rows'[k] = Settled(rows[k]) /\ day' = day /\ cleaned' = day
    BY <1>8, SettledRow, AbsentType DEF Cleanup
  <2>2. CASE rows[k].removal # None
    <3>1. rows'[k] = [rows[k] EXCEPT !.active = rows[k].removal >= day]
      BY <2>1, <2>2 DEF Settled
    <3>2. rows'[k].removal = rows[k].removal /\ rows'[k].active = (rows[k].removal >= day)
      BY <1>2, <3>1 DEF Row
    <3>3. (rows[k].removal >= day) <=> ~ (rows[k].removal < day)
      BY <1>2, <1>4, <2>2
    <3>4. /\ day' = day /\ cleaned' = day
          /\ rows'[k].removal = rows[k].removal
          /\ rows'[k].active <=> (rows[k].removal >= day)
      BY <2>1, <3>2
    <3>5. QED
      BY <2>2, <3>3, <3>4 DEF Follows
  <2>3. CASE rows[k].removal = None
    <3> DEFINE old == rows[k].detection # None /\ rows[k].detection < day - Retention
    <3>1. rows'[k] = [rows[k] EXCEPT !.active = @ /\ ~ old]
      BY <2>1, <2>3 DEF Settled
    <3>2. /\ rows'[k].removal = None
          /\ rows'[k].detection = rows[k].detection
          /\ rows'[k].active = (rows[k].active /\ ~ old)
      BY <1>2, <2>3, <3>1 DEF Row
    <3>3. QED
      BY <1>2, <2>1, <3>2 DEF Follows
  <2>4. QED
    BY <2>2, <2>3
<1>9. ASSUME NEW j \in Jobs, Deactivates(j)
      PROVE  Follows(rows[k])'
  <2>1. /\ UNCHANGED <<day, cleaned, touched>> /\ overtaken \subseteq overtaken'
        /\ rows'[k].id = rows[k].id
        /\ rows'[k].removal = rows[k].removal
        /\ rows'[k].detection = rows[k].detection
    BY <1>9, DeactivatedRow DEF Deactivates, Deactivate
  <2>2. Before
    BY <2>1
  <2>3. CASE rows'[k] = rows[k]
    BY <1>5, <2>1, <2>3
  <2>4. CASE /\ rows'[k].active = FALSE
             /\ rows[k].active /\ ~ Past(rows[k].removal) => k \in overtaken'
    <3>1. ~ rows[k].active \/ Past(rows[k].removal)
      BY <2>4
    <3>2. ~ (rows[k].removal # None /\ rows[k].removal >= day)
      <4>1. CASE ~ rows[k].active
        BY <1>1, <2>2, <4>1 DEF Follows
      <4>2. CASE Past(rows[k].removal)
        BY <1>2, <1>4, <4>2 DEF Past
      <4>3. QED
        BY <3>1, <4>1, <4>2
    <3>3. QED
      BY <2>1, <2>4, <3>2 DEF Follows
  <2>5. QED
    BY <1>9, <2>3, <2>4, DeactivatedRow DEF Deactivates
<1>10. CASE NextDay
  <2>1. rows'[k] = rows[k] /\ Before /\ cleaned' = cleaned /\ day' = day + 1
    BY <1>10 DEF NextDay, history
  <2>2. rows[k].removal # None /\ rows[k].removal >= day + 1 => rows[k].removal >= day
    BY <1>2, <1>4
  <2>3. QED
    BY <1>1, <2>1, <2>2 DEF Follows
<1>11. CASE Stays \/ Forgets \/ \E j \in Jobs : Reads(j)
  BY <1>5, <1>11 DEF Stays, Forgets, Reads, history
<1>12. QED
  BY <1>6, <1>7, <1>8, <1>9, <1>10, <1>11, TableChanges DEF Written, Deletes

(* A row that nobody has touched since the last night is active exactly as  *)
(* its dates say, whatever the jobs of the app do by day.                   *)
THEOREM FlagsFollowDates == Spec => []RowsFollowTheirDates
<1>1. Init => RowsFollowTheirDates
  <2> SUFFICES ASSUME Init, NEW k \in Present
               PROVE  Follows(rows[k])
    BY DEF RowsFollowTheirDates, Follows
  <2>1. k \in Keys /\ rows[k].id # 0 /\ rows \in Tables /\ cleaned = 0
    BY DEF Init, Present
  <2>2. rows[k] # Absent
    BY <2>1, AbsentType
  <2>3. rows[k] \in Row /\ (rows[k].removal # None => rows[k].active)
    BY <2>1, <2>2, TableAssumption
  <2>4. rows[k].removal \in Dates \cup {None} /\ rows[k].detection \in Dates \cup {None}
    BY <2>3 DEF Row
  <2>5. QED
    BY <2>1, <2>3, <2>4, DateAssumption, BoundAssumption DEF Follows, Dates
<1>2. QED
  BY InitTypeInv, NextTypeInv, NextRowsFollow, <1>1, PTL DEF Spec

-----------------------------------------------------------------------------
(* The jobs of the app *)

(* A row whose id a job holds is over, unless it was renewed meanwhile: an  *)
(* id is never given twice.                                                 *)
HeldInv ==
    \A j \in Jobs, k \in Keys :
        rows[k].id # 0 /\ <<k, rows[k].id>> \in ids[j] /\ k \notin renewed[j]
            => Past(rows[k].removal)

LEMMA NextHeldInv ==
  ASSUME TypeInv, HeldInv, [Next]_vars
  PROVE  HeldInv'
<1> SUFFICES ASSUME NEW j \in Jobs, NEW k \in Keys,
                    rows'[k].id # 0, <<k, rows'[k].id>> \in ids'[j], k \notin renewed'[j]
             PROVE  Past(rows[k].removal)'
  BY DEF HeldInv
<1>1. /\ rows[k] \in Row /\ serial \in Nat /\ day \in Nat
      /\ ids[j] \subseteq Keys \X (1 .. serial)
      /\ ids \in [Jobs -> SUBSET (Keys \X (1 .. serial))]
      /\ renewed \in [Jobs -> SUBSET Keys]
  BY BoundAssumption DEF TypeInv, RowsType, NumbersType, SetsType
<1>2. rows[k].removal \in Int \cup {None}
  BY <1>1, BoundAssumption DEF Row, Dates
<1>3. ASSUME rows'[k].id = rows[k].id, rows'[k].removal = rows[k].removal,
             ids'[j] = ids[j], renewed'[j] = renewed[j], day' = day
      PROVE  Past(rows[k].removal)'
  BY <1>3 DEF HeldInv, Past
<1>4. ASSUME NEW new \in Writable, Commit(new)
      PROVE  Past(rows[k].removal)'
  <2>1. ids' = ids /\ day' = day
    BY <1>4, CommittedNumbers
  <2>2. renewed'[j] = renewed[j] \cup (DOMAIN new \ {x \in DOMAIN new : rows[x].id = 0})
    BY <1>4, <2>1 DEF Commit
  <2>3. CASE k \notin DOMAIN new
    <3>1. rows'[k] = rows[k]
      BY <1>4, <2>3, CommittedRow
    <3>2. QED
      BY <2>1, <2>2, <3>1 DEF HeldInv, Past
  <2>4. CASE k \in DOMAIN new
    <3>1. rows[k].id = 0
      BY <2>2, <2>4
    <3>2. rows'[k].id = serial + 1
      BY <1>4, <2>4, <3>1, CommittedRow
    <3>3. QED
      BY <1>1, <2>1, <3>2
  <2>5. QED
    BY <2>3, <2>4
<1>5. ASSUME NEW ks \in SUBSET Keys, Delete(ks)
      PROVE  Past(rows[k].removal)'
  <2>1. rows'[k] = rows[k]
    BY <1>5, AbsentType DEF Delete
  <2>2. QED
    BY <1>3, <1>5, <2>1 DEF Delete, jobs
<1>6. CASE Cleanup
  BY <1>3, <1>6, SettledRow DEF Cleanup, jobs
<1>7. ASSUME NEW i \in Jobs, Deactivates(i)
      PROVE  Past(rows[k].removal)'
  <2>1. rows'[k].id = rows[k].id /\ rows'[k].removal = rows[k].removal /\ day' = day
    BY <1>7, DeactivatedRow DEF Deactivates
  <2>2. ids'[j] = ids[j] /\ renewed'[j] = renewed[j]
    BY <1>7 DEF Deactivates, Deactivate, Forget
  <2>3. QED
    BY <1>3, <2>1, <2>2
<1>8. ASSUME NEW i \in Jobs, Reads(i)
      PROVE  Past(rows[k].removal)'
  <2>1. UNCHANGED <<rows, day, renewed>> /\ ids' = [ids EXCEPT ![i] = Expired]
    BY <1>8 DEF Reads, ReadIds
  <2>2. CASE i = j
    <3>1. <<k, rows[k].id>> \in Expired
      BY <1>1, <2>1, <2>2
    <3>2. Past(rows[k].removal)
      BY <3>1 DEF Expired
    <3>3. QED
      BY <2>1, <3>2 DEF Past
  <2>3. CASE i # j
    BY <1>1, <1>3, <2>1, <2>3
  <2>4. QED
    BY <2>2, <2>3
<1>9. CASE Forgets
  <2>1. UNCHANGED <<rows, day>>
    BY <1>9 DEF Forgets
  <2>2. ids'[j] = ids[j] /\ renewed'[j] = renewed[j]
    BY <1>9 DEF Forgets, Forget
  <2>3. QED
    BY <1>3, <2>1, <2>2
<1>10. CASE NextDay
  <2>1. rows' = rows /\ ids' = ids /\ renewed' = renewed /\ day' = day + 1
    BY <1>10 DEF NextDay, jobs, history
  <2>2. Past(rows[k].removal)
    BY <2>1 DEF HeldInv
  <2>3. QED
    BY <1>1, <1>2, <2>1, <2>2 DEF Past
<1>11. CASE Stays
  BY <1>3, <1>11 DEF Stays, history
<1>12. QED
  BY <1>4, <1>5, <1>6, <1>7, <1>8, <1>9, <1>10, <1>11, TableChanges DEF Written, Deletes

(* A job of the app deactivates a row whose dates hold only when that very  *)
(* row was renewed between its two statements, and never one that was       *)
(* deleted and entered again.                                               *)
THEOREM JobsErrRarely == Spec => JobsErrOnlyWhenRenewed
<1>1. Init => HeldInv
  BY DEF Init, HeldInv
<1>2. ASSUME TypeInv, HeldInv, [Next]_vars
      PROVE  \A k \in overtaken' \ overtaken : \E j \in Jobs : ids[j] # {} /\ k \in renewed[j]
  <2> SUFFICES ASSUME NEW k \in overtaken' \ overtaken
               PROVE  \E j \in Jobs : ids[j] # {} /\ k \in renewed[j]
    OBVIOUS
  <2>1. PICK j \in Jobs : Deactivates(j)
    BY <1>2, TableChanges, CommittedNumbers
       DEF Written, Deletes, Delete, Cleanup, Reads, Forgets, NextDay, Stays, history
  <2>2. k \in {x \in Present : <<x, rows[x].id>> \in ids[j]} /\ ~ Past(rows[k].removal)
    BY <2>1 DEF Deactivates, Deactivate
  <2>3. k \in Keys /\ rows[k].id # 0 /\ <<k, rows[k].id>> \in ids[j]
    BY <2>2 DEF Present
  <2>4. QED
    BY <1>2, <2>2, <2>3 DEF HeldInv
<1>3. QED
  BY InitTypeInv, NextTypeInv, NextHeldInv, <1>1, <1>2, PTL DEF Spec, JobsErrOnlyWhenRenewed

-----------------------------------------------------------------------------
(* Batches *)

(* A batch of the collector is stored as a whole, or not at all; in every   *)
(* row that it stores the flag agrees with the removal date of that day.    *)
THEOREM WholeBatches == Spec => BatchesAreWhole
<1>1. ASSUME TypeInv, [Next]_vars
      PROVE  (batch # Empty /\ batch' = Empty /\ rows' # rows) =>
                \A ip \in DOMAIN batch :
                    LET row == rows'[<<ip, "REGTECH">>] IN
                    /\ row.id # 0
                    /\ row.active = ~ Past(row.removal)
                    /\ batch[ip].removal \in {None, row.removal}
  <2> SUFFICES ASSUME batch # Empty, batch' = Empty, rows' # rows, NEW ip \in DOMAIN batch
               PROVE  LET row == rows'[<<ip, "REGTECH">>] IN
                      /\ row.id # 0
                      /\ row.active = ~ Past(row.removal)
                      /\ batch[ip].removal \in {None, row.removal}
    OBVIOUS
  <2>1. CollectorInserts
    BY <1>1 DEF Next, CreateBlacklist, UpdateBlacklist, DeleteBlacklist, ManualAddCounts,
       ManualAddInserts, RemoveIps, BatchAdd, CollectorFilters, CollectorFails, Cleanup,
       CleanupFails, Start, ExpiryReads, ExpiryUpdates, ExpiryFails, StartScheduler,
       LoopReads, LoopUpdates, LoopFails, Crash, NextDay, vars
  <2>2. PICK S \in SUBSET Ips : batch \in [S -> Item]
    BY <1>1 DEF TypeInv, PendingType
  <2> DEFINE ks  == (DOMAIN batch) \X {"REGTECH"}
             new == [x \in ks |-> Upsert(x, batch[x[1]])]
             k   == <<ip, "REGTECH">>
  <2>3. ks \subseteq Keys /\ k \in ks /\ k \in Keys
    BY <2>2 DEF Keys, Sources
  <2>4. Commit(new) /\ \A x \in DOMAIN new : Valid(new[x].detection, new[x].removal)
    BY <1>1, <2>1 DEF CollectorInserts
  <2>5. \A x \in ks : Upsert(x, batch[x[1]]) \in Row
    BY <1>1, <2>2, <2>3, UpsertType
  <2>6. new \in Writable
    <3>1. new \in [ks -> Row] /\ DOMAIN new = ks
      BY <2>5
    <3>2. QED
      BY <2>3, <2>4, <3>1 DEF Writable
  <2>7. new[k] = Upsert(k, batch[ip])
    BY <2>3
  <2>8. k \in DOMAIN new
    BY <2>3
  <2> HIDE DEF new
  <2>9. /\ rows'[k] \in Row
        /\ rows'[k].removal = Upsert(k, batch[ip]).removal
        /\ rows'[k].active = Upsert(k, batch[ip]).active
        /\ rows[k].id # 0 => rows'[k].id = rows[k].id
        /\ rows[k].id = 0 => rows'[k].id = serial + 1
    BY <1>1, <2>3, <2>4, <2>6, <2>7, <2>8, CommittedRow
  <2>10. rows'[k].id # 0
    BY <1>1, <2>9 DEF TypeInv, NumbersType
  <2>11. /\ Upsert(k, batch[ip]).active = ~ Past(Upsert(k, batch[ip]).removal)
         /\ batch[ip].removal \in {None, Upsert(k, batch[ip]).removal}
    BY DEF Upsert, NewRow
  <2>12. QED
    BY <2>9, <2>10, <2>11
<1>2. QED
  BY InitTypeInv, NextTypeInv, <1>1, PTL DEF Spec, BatchesAreWhole

=============================================================================
