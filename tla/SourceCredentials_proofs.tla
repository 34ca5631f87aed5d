----------------------- MODULE SourceCredentials_proofs -----------------------
(***************************************************************************)
(* Proofs about Settings and SourceCredentials, for any number of threads, *)
(* keys, values, sources and requests: what the cache of settings answers  *)
(* is recent, a batch is accounted for, stored passwords are kept, readers *)
(* agree on a pair, and the endpoints tell the truth about it.             *)
(***************************************************************************)
EXTENDS SourceCredentials, FiniteSetTheorems, TLAPS

-----------------------------------------------------------------------------
(* Requests of settings *)

ReqFields == {"pc", "op", "asked", "todo", "written", "updated", "failed", "key", "value",
              "tested", "answer"}
IsReq(r) == r = [f \in ReqFields |-> r[f]]

(* The key whose row is written while the cache is not yet emptied. *)
Doing(r) == IF r.pc \in {"clear", "unstamp"} THEN {r.key} ELSE {}

Accounted(r) ==
    /\ r.asked = r.updated \cup r.failed \cup r.todo \cup Doing(r)
    /\ r.written = r.updated \cup Doing(r)
    /\ r.written \cap r.failed = {}
    /\ r.todo \cap (r.written \cup r.failed) = {}
    /\ Doing(r) \cap (r.updated \cup r.failed \cup r.todo) = {}
    /\ r.written \cap Sensitive = {}

Looking == {"age", "member", "lookup", "read", "store", "clock", "stamp"}

(* The answer says what happened, or is one of the two that name nothing. *)
SaysWhat(r) ==
    /\ r.answer = "done" => r.failed = {} /\ r.todo = {}
    /\ r.todo # {} => r.answer = "unnamed" /\ Malformed \in r.todo
    /\ r.answer = "unnamed" => r.todo # {} \/ (r.op = "config" /\ r.failed # {})

Request(r) ==
    /\ IsReq(r)
    /\ Accounted(r)
    /\ r.pc \in {"free", "write", "clear", "unstamp"} \cup Looking
    /\ r.pc \in Looking => r.key \in Keys \ Sensitive
    /\ r.pc = "store" => r.value # None
    /\ r.pc = "free" => SaysWhat(r)

Requests == req = [h \in Http |-> req[h]] /\ \A h \in Http : Request(req[h])

LEMMA AnswerIsRequest ==
  ASSUME NEW a, a # "unnamed"
  PROVE  Request(Says(a)) /\ Says(a).pc = "free"
  BY DEF Request, IsReq, ReqFields, Free, Says, Accounted, Doing, SaysWhat, Looking

LEMMA FreeIsRequest == Request(Free)
  BY SettingsAssumption DEF Request, IsReq, ReqFields, Free, Accounted, Doing, SaysWhat, Looking

(* A reader goes from place to place and changes nothing that is accounted for. *)
LEMMA LookIsRequest ==
  ASSUME NEW k \in Keys \ Sensitive, NEW pc \in Looking \ {"store"}
  PROVE  Request([Free EXCEPT !.pc = pc, !.key = k])
<1> DEFINE x == [Free EXCEPT !.pc = pc, !.key = k]
<1>1. /\ IsReq(x) /\ x.pc = pc /\ x.key = k /\ x.asked = {} /\ x.todo = {} /\ x.written = {}
      /\ x.updated = {} /\ x.failed = {}
  BY DEF IsReq, ReqFields, Free
<1> HIDE DEF x
<1>2. Request(x)
  BY <1>1 DEF Request, Accounted, Doing, Looking
<1>3. QED
  BY <1>2 DEF x

LEMMA LookMoves ==
  ASSUME NEW r, Request(r), r.pc \in Looking, NEW x, IsReq(x), x.pc \in Looking,
         x.pc = "store" => x.value # None,
         \A f \in {"asked", "todo", "written", "updated", "failed", "key"} : x[f] = r[f]
  PROVE  Request(x)
<1>1. /\ x.asked = r.asked /\ x.todo = r.todo /\ x.written = r.written
      /\ x.updated = r.updated /\ x.failed = r.failed /\ x.key = r.key
  OBVIOUS
<1>2. Doing(x) = {} /\ Doing(r) = {} /\ x.pc # "free"
  BY DEF Doing, Looking
<1>3. QED
  BY <1>1, <1>2 DEF Request, Accounted

LEMMA WritingIsRequest ==
  ASSUME NEW op, NEW v, NEW items
  PROVE  /\ Request(Writing(op, items, v)) /\ Writing(op, items, v).pc = "write"
         /\ IsReq(Writing(op, items, v))
  BY DEF Request, IsReq, ReqFields, Free, Writing, Accounted, Doing, Looking

(* Before the next item is taken, every item is in one of three places. *)
Settled(r) ==
    /\ r.asked = r.updated \cup r.failed \cup r.todo
    /\ r.written = r.updated
    /\ r.written \cap r.failed = {}
    /\ r.todo \cap (r.written \cup r.failed) = {}
    /\ r.written \cap Sensitive = {}

LEMMA FinishIsRequest ==
  ASSUME NEW r, IsReq(r), Settled(r)
  PROVE  Request(Finish(r)) /\ Finish(r).pc \in {"free", "write"}
<1>1. CASE r.todo = {}
  <2> DEFINE a == IF r.failed = {} THEN "done"
                  ELSE CASE r.op = "batch"  -> "listed"
                         [] r.op = "config" -> "unnamed"
                         [] OTHER           -> "failed"
             x == [r EXCEPT !.pc = "free", !.key = None, !.value = None, !.answer = a]
  <2>1. Finish(r) = x
    BY <1>1 DEF Finish
  <2>2. /\ a = "done" => r.failed = {}
        /\ a = "unnamed" => r.op = "config" /\ r.failed # {}
    OBVIOUS
  <2>3. QED
    <3> HIDE DEF a
    <3>1. /\ IsReq(x) /\ x.pc = "free" /\ x.todo = {} /\ Doing(x) = {} /\ x.answer = a
          /\ x.asked = r.asked /\ x.written = r.written /\ x.updated = r.updated
          /\ x.failed = r.failed /\ x.op = r.op
      BY <1>1 DEF IsReq, ReqFields, Doing
    <3> HIDE DEF x
    <3>2. Request(x)
      BY <1>1, <2>2, <3>1 DEF Request, Accounted, Settled, SaysWhat, Looking
    <3>3. QED
      BY <2>1, <3>1, <3>2
<1>2. CASE r.todo # {}
  <2> DEFINE x == [r EXCEPT !.pc = "write", !.key = None]
  <2>1. Finish(r) = x
    BY <1>2 DEF Finish
  <2>2. /\ IsReq(x) /\ x.pc = "write" /\ Doing(x) = {} /\ x.todo = r.todo
        /\ x.asked = r.asked /\ x.written = r.written /\ x.updated = r.updated /\ x.failed = r.failed
    BY DEF IsReq, ReqFields, Doing
  <2> HIDE DEF x
  <2>3. Request(x)
    BY <2>2 DEF Request, Accounted, Settled, Looking
  <2>4. QED
    BY <2>1, <2>2, <2>3
<1>3. QED
  BY <1>1, <1>2

LEMMA TakenSettles ==
  ASSUME NEW r, Request(r), r.pc = "write", NEW k \in r.todo
  PROVE  Request(Failed(Taken(r, k))) /\ Failed(Taken(r, k)).pc \in {"free", "write"}
<1> DEFINE x == [Taken(r, k) EXCEPT !.failed = @ \cup {Taken(r, k).key}]
<1>1. /\ IsReq(x) /\ x.todo = r.todo \ {k} /\ x.failed = r.failed \cup {k}
      /\ x.asked = r.asked /\ x.written = r.written /\ x.updated = r.updated /\ Doing(r) = {}
  BY DEF Request, IsReq, ReqFields, Taken, Doing
<1>2. Failed(Taken(r, k)) = Finish(x)
  BY DEF Failed
<1> HIDE DEF x
<1>3. Settled(x)
  BY <1>1 DEF Request, Accounted, Settled
<1>4. QED
  BY <1>1, <1>2, <1>3, FinishIsRequest

LEMMA WriteStep ==
  ASSUME NEW r, Request(r), r.pc = "write", NEW k \in r.todo, k \notin Sensitive
  PROVE  LET x == [Taken(r, k) EXCEPT !.pc = "clear", !.written = @ \cup {k}]
         IN  Request(x) /\ x.pc = "clear"
<1> DEFINE x == [Taken(r, k) EXCEPT !.pc = "clear", !.written = @ \cup {k}]
<1>1. /\ IsReq(x) /\ x.pc = "clear" /\ x.key = k /\ x.todo = r.todo \ {k}
      /\ x.asked = r.asked /\ x.written = r.written \cup {k} /\ x.updated = r.updated
      /\ x.failed = r.failed /\ Doing(r) = {}
  BY DEF Request, IsReq, ReqFields, Taken, Doing
<1> HIDE DEF x
<1>2. Doing(x) = {k}
  BY <1>1 DEF Doing
<1>3. Request(x)
  BY <1>1, <1>2 DEF Request, Accounted, Looking
<1>4. QED
  BY <1>1, <1>3 DEF x

LEMMA AbortStep ==
  ASSUME NEW r, Request(r), r.pc = "write", Malformed \in r.todo
  PROVE  LET x == [r EXCEPT !.pc = "free", !.key = None, !.value = None, !.answer = "unnamed"]
         IN  Request(x) /\ x.pc = "free"
<1> DEFINE x == [r EXCEPT !.pc = "free", !.key = None, !.value = None, !.answer = "unnamed"]
<1>1. /\ IsReq(x) /\ x.pc = "free" /\ x.todo = r.todo /\ x.answer = "unnamed" /\ Doing(x) = {}
      /\ x.asked = r.asked /\ x.written = r.written /\ x.updated = r.updated
      /\ x.failed = r.failed /\ Doing(r) = {}
  BY DEF Request, IsReq, ReqFields, Doing
<1> HIDE DEF x
<1>2. Request(x)
  BY <1>1 DEF Request, Accounted, SaysWhat, Looking
<1>3. QED
  BY <1>1, <1>2 DEF x

LEMMA ClearSteps ==
  ASSUME NEW r, Request(r)
  PROVE  /\ r.pc = "clear" => Request([r EXCEPT !.pc = "unstamp"]) /\ [r EXCEPT !.pc = "unstamp"].pc = "unstamp"
         /\ r.pc = "unstamp" => LET x == Finish([r EXCEPT !.updated = @ \cup {r.key}])
                                IN  Request(x) /\ x.pc \in {"free", "write"}
<1>1. r.pc = "clear" => Request([r EXCEPT !.pc = "unstamp"]) /\ [r EXCEPT !.pc = "unstamp"].pc = "unstamp"
  BY DEF Request, IsReq, ReqFields, Accounted, Doing, Looking
<1>2. r.pc = "unstamp" => IsReq([r EXCEPT !.updated = @ \cup {r.key}])
  BY DEF Request, IsReq, ReqFields
<1>3. r.pc = "unstamp" => Settled([r EXCEPT !.updated = @ \cup {r.key}])
  BY DEF Request, IsReq, ReqFields, Accounted, Settled, Doing
<1>4. QED
  BY <1>1, <1>2, <1>3, FinishIsRequest

(* One request is served at a time by a thread: the step replaces its record. *)
Serving(h, r) == req' = [req EXCEPT ![h] = r] /\ Request(r)

LEMMA Replaced ==
  ASSUME NEW h, NEW r, Requests, Serving(h, r)
  PROVE  Requests'
  BY DEF Requests, Serving

LEMMA RequestsInit == InitSettings => Requests
  BY FreeIsRequest DEF InitSettings, Requests

(* What each request begins with. *)
Begins(h) ==
    \E r : Begin(h, r) /\ Serving(h, r) /\ r.pc \in {"free", "read", "age", "write"}

LEMMA Beginning ==
  ASSUME NEW h, NEW r, Begin(h, r), Request(r), r.pc \in {"free", "read", "age", "write"}
  PROVE  Begins(h)
  BY DEF Begins, Begin, Serving

LEMMA KeySteps ==
  ASSUME NEW h, NEW key \in Keys, NEW v,
         \/ GetSetting(h, key) \/ UpdateSetting(h, key, v) \/ CreateSetting(h, key, v)
         \/ DeleteSetting(h, key)
  PROVE  Begins(h)
<1>1. Request(Says("forbidden")) /\ Says("forbidden").pc = "free"
  BY AnswerIsRequest
<1>2. CASE GetSetting(h, key)
  <2>1. CASE key \in Sensitive
    BY <1>1, <1>2, <2>1, Beginning DEF GetSetting, IsSensitiveSetting
  <2>2. CASE key \notin Sensitive
    <3> DEFINE pc == IF stamp = None THEN "read" ELSE "age"
               x == [Free EXCEPT !.pc = pc, !.key = key]
    <3>1. pc \in {"read", "age"}
      OBVIOUS
    <3>2. Begin(h, x)
      BY <1>2, <2>2 DEF GetSetting, IsSensitiveSetting
    <3> HIDE DEF pc
    <3>3. Request(x) /\ x.pc = pc
      BY <2>2, <3>1, LookIsRequest DEF Looking, Free
    <3>4. QED
      BY <3>1, <3>2, <3>3, Beginning
  <2>3. QED
    BY <2>1, <2>2
<1>3. ASSUME NEW op, NEW w, Change(h, op, key, w)
      PROVE  Begins(h)
  <2>1. CASE key \in Sensitive
    BY <1>1, <1>3, <2>1, Beginning DEF Change, IsSensitiveSetting
  <2>2. CASE key \notin Sensitive
    BY <1>3, <2>2, WritingIsRequest, Beginning DEF Change, IsSensitiveSetting
  <2>3. QED
    BY <2>1, <2>2
<1>4. QED
  BY <1>2, <1>3 DEF UpdateSetting, CreateSetting, DeleteSetting

LEMMA BatchSteps ==
  ASSUME NEW h, NEW items, NEW v, BatchUpdateSettings(h, items, v) \/ UpdateCollectionConfig(h, items, v)
  PROVE  Begins(h)
<1>1. CASE BatchUpdateSettings(h, items, v)
  <2> DEFINE w == Writing("batch", items, v)
  <2>1. IsReq(w) /\ Settled(w)
    BY WritingIsRequest DEF Request, Accounted, Settled, Doing
  <2>2. Request(Finish(w)) /\ Finish(w).pc \in {"free", "write"}
    <3> HIDE DEF w
    <3>1. QED
      BY <2>1, FinishIsRequest
  <2>3. QED
    BY <1>1, <2>2, Beginning DEF BatchUpdateSettings
<1>2. CASE UpdateCollectionConfig(h, items, v)
  BY <1>2, WritingIsRequest, Beginning DEF UpdateCollectionConfig
<1>3. QED
  BY <1>1, <1>2

(* A reader looks on, stores, starts the clock, or has its answer. *)
LookStep(h) ==
    TestAge(h) \/ TestMember(h) \/ LookUp(h) \/ ReadSetting(h) \/ StoreEntry(h) \/ TestClock(h)
        \/ StartClock(h)

LEMMA LookSteps ==
  ASSUME NEW h \in Http, Requests, LookStep(h)
  PROVE  \E r : Serving(h, r) /\ r.pc \in {"free"} \cup Looking /\ req[h].pc \in Looking
<1>0. Request(req[h]) /\ IsReq(req[h]) /\ req[h].pc \in Looking
  BY DEF Requests, Request, LookStep, TestAge, TestMember, LookUp, ReadSetting, StoreEntry, TestClock,
         StartClock, Looking
<1>1. ASSUME NEW a, a # "unnamed", Serves(h, Says(a))
      PROVE  \E r : Serving(h, r) /\ r.pc \in {"free"} \cup Looking
  BY <1>1, AnswerIsRequest DEF Serves, Serving
<1>2. ASSUME NEW pc \in Looking \ {"store"}, Serves(h, [req[h] EXCEPT !.pc = pc])
      PROVE  \E r : Serving(h, r) /\ r.pc \in {"free"} \cup Looking
  <2> DEFINE x == [req[h] EXCEPT !.pc = pc]
  <2>1. /\ IsReq(x) /\ x.pc = pc
        /\ \A f \in {"asked", "todo", "written", "updated", "failed", "key"} : x[f] = req[h][f]
    BY <1>0 DEF IsReq, ReqFields
  <2>2. Serves(h, x)
    BY <1>2
  <2> HIDE DEF x
  <2>3. Request(x)
    BY <1>0, <2>1, LookMoves
  <2>4. QED
    BY <2>1, <2>2, <2>3 DEF Serves, Serving
<1>3. CASE TestAge(h)
  <2>1. CASE stamp # None /\ IsCacheValid
    <3> DEFINE x == [req[h] EXCEPT !.pc = "member", !.tested = now]
    <3>1. /\ IsReq(x) /\ x.pc = "member"
          /\ \A f \in {"asked", "todo", "written", "updated", "failed", "key"} : x[f] = req[h][f]
      BY <1>0 DEF IsReq, ReqFields
    <3>2. Serves(h, x)
      BY <1>3, <2>1 DEF TestAge
    <3> HIDE DEF x
    <3>3. Request(x)
      BY <1>0, <3>1, LookMoves DEF Looking
    <3>4. QED
      BY <1>0, <3>1, <3>2, <3>3 DEF Serves, Serving, Looking
  <2>2. CASE ~(stamp # None /\ IsCacheValid)
    <3>1. Serves(h, Says("missing")) \/ Serves(h, [req[h] EXCEPT !.pc = "read"])
      BY <1>3, <2>2 DEF TestAge
    <3>2. QED
      BY <1>0, <1>1, <1>2, <3>1 DEF Looking
  <2>3. QED
    BY <2>1, <2>2
<1>4. CASE TestMember(h)
  <2>1. Serves(h, [req[h] EXCEPT !.pc = "lookup"]) \/ Serves(h, [req[h] EXCEPT !.pc = "read"])
    BY <1>4 DEF TestMember
  <2>2. QED
    BY <1>0, <1>2, <2>1 DEF Looking
<1>5. CASE LookUp(h) \/ StartClock(h)
  <2>1. Serves(h, Says("done")) \/ Serves(h, Says("missing"))
    BY <1>5 DEF LookUp, StartClock
  <2>2. QED
    BY <1>0, <1>1, <2>1
<1>6. CASE ReadSetting(h)
  <2> DEFINE read == IF up THEN Stored(setting, req[h].key) ELSE None
             x == [req[h] EXCEPT !.pc = "store", !.value = read]
  <2>1. CASE read = None
    BY <1>0, <1>1, <1>6, <2>1 DEF ReadSetting
  <2>2. CASE read # None
    <3>1. /\ IsReq(x) /\ x.pc = "store" /\ x.value # None
          /\ \A f \in {"asked", "todo", "written", "updated", "failed", "key"} : x[f] = req[h][f]
      BY <1>0, <2>2 DEF IsReq, ReqFields
    <3>2. Serves(h, x)
      BY <1>6, <2>2 DEF ReadSetting
    <3> HIDE DEF x
    <3>3. Request(x)
      BY <1>0, <3>1, LookMoves DEF Looking
    <3>4. QED
      BY <1>0, <3>1, <3>2, <3>3 DEF Serves, Serving, Looking
  <2>3. QED
    BY <2>1, <2>2
<1>7. CASE StoreEntry(h)
  BY <1>0, <1>2, <1>7 DEF StoreEntry, Looking
<1>8. CASE TestClock(h)
  <2>1. Serves(h, Says("done")) \/ Serves(h, [req[h] EXCEPT !.pc = "stamp"])
    BY <1>8 DEF TestClock
  <2>2. QED
    BY <1>0, <1>1, <1>2, <2>1 DEF Looking
<1>9. QED
  BY <1>3, <1>4, <1>5, <1>6, <1>7, <1>8 DEF LookStep

(* A writer takes an item, or ends. *)
LEMMA WriteSteps ==
  ASSUME NEW h \in Http, Requests, WriteSetting(h) \/ RefuseItem(h) \/ AbortBatch(h)
  PROVE  \E r : /\ Serving(h, r)
                /\ req[h].pc = "write" /\ r.pc \in {"free", "write", "clear"}
                /\ r.pc # "clear" => UNCHANGED setting
<1>1. Request(req[h]) /\ req[h].pc = "write"
  BY DEF WriteSetting, RefuseItem, AbortBatch, Requests
<1>2. ASSUME NEW k \in req[h].todo, Serves(h, Failed(Taken(req[h], k))), UNCHANGED setting
      PROVE  \E r : Serving(h, r) /\ r.pc \in {"free", "write", "clear"} /\ (r.pc # "clear" => UNCHANGED setting)
  <2> DEFINE x == Failed(Taken(req[h], k))
  <2>1. Request(x) /\ x.pc \in {"free", "write"} /\ Serves(h, x)
    BY <1>1, <1>2, TakenSettles
  <2> HIDE DEF x
  <2>2. QED
    BY <1>2, <2>1 DEF Serves, Serving
<1>3. CASE WriteSetting(h)
  <2>1. PICK key \in req[h].todo :
               /\ key \notin Sensitive
               /\ \/ Serves(h, [Taken(req[h], key) EXCEPT !.pc = "clear", !.written = @ \cup {key}])
                  \/ Serves(h, Failed(Taken(req[h], key))) /\ UNCHANGED setting
    BY <1>3 DEF WriteSetting, IsSensitiveSetting
  <2> DEFINE x == [Taken(req[h], key) EXCEPT !.pc = "clear", !.written = @ \cup {key}]
  <2>2. Request(x) /\ x.pc = "clear"
    BY <1>1, <2>1, WriteStep
  <2>3. Serves(h, x) \/ (Serves(h, Failed(Taken(req[h], key))) /\ UNCHANGED setting)
    BY <2>1
  <2> HIDE DEF x
  <2>4. QED
    BY <1>1, <1>2, <2>2, <2>3 DEF Serves, Serving
<1>4. CASE RefuseItem(h)
  BY <1>1, <1>2, <1>4 DEF RefuseItem
<1>5. CASE AbortBatch(h)
  <2> DEFINE x == [req[h] EXCEPT !.pc = "free", !.key = None, !.value = None, !.answer = "unnamed"]
  <2>1. Request(x) /\ x.pc = "free" /\ Serves(h, x) /\ UNCHANGED setting
    BY <1>1, <1>5, AbortStep DEF AbortBatch
  <2> HIDE DEF x
  <2>2. QED
    BY <1>1, <2>1 DEF Serves, Serving
<1>6. QED
  BY <1>1, <1>3, <1>4, <1>5

LEMMA EmptyingSteps ==
  ASSUME NEW h \in Http, Requests
  PROVE  /\ ClearCache(h) => \E r : Serving(h, r) /\ r.pc = "unstamp" /\ req[h].pc = "clear"
         /\ ClearStamp(h) => \E r : Serving(h, r) /\ r.pc \in {"free", "write"} /\ req[h].pc = "unstamp"
<1>1. Request(req[h])
  BY DEF Requests
<1>2. ASSUME ClearCache(h)
      PROVE  \E r : Serving(h, r) /\ r.pc = "unstamp" /\ req[h].pc = "clear"
  <2> DEFINE x == [req[h] EXCEPT !.pc = "unstamp"]
  <2>1. Request(x) /\ x.pc = "unstamp" /\ req[h].pc = "clear"
    BY <1>1, <1>2, ClearSteps DEF ClearCache
  <2>2. Serves(h, x)
    BY <1>2 DEF ClearCache
  <2> HIDE DEF x
  <2>3. QED
    BY <2>1, <2>2 DEF Serves, Serving
<1>3. ASSUME ClearStamp(h)
      PROVE  \E r : Serving(h, r) /\ r.pc \in {"free", "write"} /\ req[h].pc = "unstamp"
  <2> DEFINE x == Finish([req[h] EXCEPT !.updated = @ \cup {req[h].key}])
  <2>1. Request(x) /\ x.pc \in {"free", "write"} /\ req[h].pc = "unstamp"
    BY <1>1, <1>3, ClearSteps DEF ClearStamp
  <2>2. Serves(h, x)
    BY <1>3 DEF ClearStamp
  <2> HIDE DEF x
  <2>3. QED
    BY <2>1, <2>2 DEF Serves, Serving
<1>4. QED
  BY <1>2, <1>3

LEMMA RequestsStep == Requests /\ [SettingsNext]_settingVars => Requests'
<1> SUFFICES ASSUME Requests, [SettingsNext]_settingVars PROVE Requests'
  OBVIOUS
<1>1. ASSUME NEW h \in Http, NEW key \in Keys, NEW v,
             \/ GetSetting(h, key) \/ UpdateSetting(h, key, v) \/ CreateSetting(h, key, v)
             \/ DeleteSetting(h, key)
      PROVE  Requests'
  BY <1>1, KeySteps, Replaced DEF Begins
<1>2. ASSUME NEW h \in Http, NEW items, NEW v,
             BatchUpdateSettings(h, items, v) \/ UpdateCollectionConfig(h, items, v)
      PROVE  Requests'
  BY <1>2, BatchSteps, Replaced DEF Begins
<1>3. ASSUME NEW h \in Http, LookStep(h) PROVE Requests'
  BY <1>3, LookSteps, Replaced
<1>4. ASSUME NEW h \in Http, WriteSetting(h) \/ RefuseItem(h) \/ AbortBatch(h) PROVE Requests'
  BY <1>4, WriteSteps, Replaced
<1>5. ASSUME NEW h \in Http, ClearCache(h) \/ ClearStamp(h) PROVE Requests'
  BY <1>5, EmptyingSteps, Replaced
<1>6. ASSUME Tick \/ Outage \/ UNCHANGED settingVars PROVE Requests'
  BY <1>6 DEF Tick, Outage, settingVars, Requests
<1>7. QED
  BY <1>1, <1>2, <1>3, <1>4, <1>5, <1>6 DEF SettingsNext, LookStep

(* A step of the system is one of the settings, or leaves them alone. *)
LEMMA SettingsSteps ==
  SystemNext \/ UNCHANGED <<settingVars, credentialVars>> => [SettingsNext]_settingVars
  BY DEF SystemNext

(* A request for several settings tells which rows it has written and which *)
(* it has not, unless an item is malformed or a config update failed in     *)
(* part: at any moment its items are those written, those that failed, those *)
(* to come and the one at hand, each in one place.                          *)
THEOREM SettingsAreAccountedFor == SystemSpec => []BatchesAreAccountedFor
<1>1. SystemInit => Requests
  BY RequestsInit DEF SystemInit
<1>2. Requests /\ [SystemNext]_<<settingVars, credentialVars>> => Requests'
  BY RequestsStep, SettingsSteps
<1>3. Requests => BatchesAreAccountedFor
  <2> SUFFICES ASSUME Requests, NEW h \in Http, req[h].pc = "free"
               PROVE  LET r == req[h]
                      IN  /\ r.asked = r.updated \cup r.failed \cup r.todo
                          /\ r.updated = r.written /\ r.updated \cap r.failed = {}
                          /\ r.written \cap (Sensitive \cup r.todo) = {}
                          /\ r.answer = "done" => r.failed = {} /\ r.todo = {}
                          /\ r.todo # {} => r.answer = "unnamed" /\ Malformed \in r.todo
                          /\ r.answer = "unnamed" => r.todo # {} \/ (r.op = "config" /\ r.failed # {})
    BY DEF BatchesAreAccountedFor
  <2>1. Accounted(req[h]) /\ SaysWhat(req[h]) /\ Doing(req[h]) = {}
    BY DEF Requests, Request, Doing
  <2>2. QED
    BY <2>1 DEF Accounted, SaysWhat
<1>4. QED
  BY <1>1, <1>2, <1>3, PTL DEF SystemSpec

-----------------------------------------------------------------------------
(* The cache of settings *)

Committed == \E h \in Http : req[h].pc = "clear"

(* Time only grows, and the clock of the cache was set in the past. *)
ClockInv == now \in Nat /\ (stamp # None => stamp \in Nat /\ stamp <= now)

(* What is cached is open to all readers. *)
EntriesInv ==
    /\ DOMAIN entry = DOMAIN cache
    /\ DOMAIN cache \subseteq Keys \ Sensitive

(* An entry that did not see a tick while the clock was about to be started  *)
(* or stopped was stored after the clock was started, and in this very       *)
(* second as long as somebody is about to.                                   *)
AgeInv ==
    \A k \in DOMAIN cache \ aged :
        /\ entry[k].at \in Nat /\ entry[k].at <= now
        /\ stamp # None => stamp <= entry[k].at
        /\ Winding => entry[k].at = now

(* Whoever found the clock valid finds such entries recent. *)
TestedInv ==
    \A h \in Http : req[h].pc \in {"member", "lookup"} =>
        /\ req[h].tested \in Nat /\ req[h].tested <= now
        /\ \A k \in DOMAIN cache \ aged : req[h].tested - entry[k].at < Ttl

(* An entry is the committed value, unless its reader lagged behind or the   *)
(* writer that made it old is about to empty the cache.                      *)
FreshInv ==
    \A k \in DOMAIN cache :
        \/ entry[k].lag
        \/ Committed
        \/ cache[k] = Stored(setting, k) /\ Stored(setting, k) # None

CacheInv == ClockInv /\ EntriesInv /\ AgeInv /\ TestedInv /\ FreshInv

LEMMA CacheInit == InitSettings => CacheInv
<1> SUFFICES ASSUME InitSettings PROVE CacheInv
  OBVIOUS
<1>1. \A h \in Http : req[h].pc = "free"
  BY DEF InitSettings, Free
<1>2. QED
  BY <1>1, SettingsAssumption
     DEF InitSettings, Empty, CacheInv, ClockInv, EntriesInv, AgeInv, TestedInv, FreshInv

(* One thread moves; the others stay where they are. *)
LEMMA OneMoves ==
  ASSUME NEW h \in Http, NEW r, Requests, Serving(h, r)
  PROVE  req'[h] = r /\ \A g \in Http \ {h} : req'[g] = req[g]
  BY DEF Requests, Serving

(* A step that leaves the rows, the cache and its clock alone, and nobody    *)
(* behind: no writer between commit and cache, no new hand on the clock, and *)
(* no new reader that found the clock valid.                                 *)
LEMMA CacheFrame ==
  ASSUME NEW h \in Http, NEW r, Requests, CacheInv, Serving(h, r),
         UNCHANGED <<setting, cache, stamp, now, entry, aged>>,
         req[h].pc # "clear", r.pc # "unstamp",
         r.pc = "stamp" => stamp = None,
         r.pc \in {"member", "lookup"} =>
             req[h].pc = "member" /\ r.tested = req[h].tested
  PROVE  CacheInv'
<1>1. req'[h] = r /\ \A g \in Http \ {h} : req'[g] = req[g]
  BY OneMoves
<1>2. Winding' => Winding
  BY <1>1 DEF Winding
<1>3. Committed => Committed'
  BY <1>1 DEF Committed
<1>4. ClockInv' /\ EntriesInv' /\ AgeInv'
  BY <1>2 DEF CacheInv, ClockInv, EntriesInv, AgeInv
<1>5. TestedInv'
  BY <1>1 DEF CacheInv, TestedInv
<1>6. FreshInv'
  BY <1>3 DEF CacheInv, FreshInv, Stored
<1>7. QED
  BY <1>4, <1>5, <1>6 DEF CacheInv

(* Whoever finds the clock valid finds the entries recent. *)
LEMMA CacheTest ==
  ASSUME NEW h \in Http, Requests, CacheInv, TestAge(h)
  PROVE  CacheInv'
<1>1. PICK r : Serving(h, r)
  BY LookSteps DEF LookStep
<1>2. /\ req'[h] = r /\ \A g \in Http \ {h} : req'[g] = req[g]
      /\ UNCHANGED <<setting, cache, stamp, now, entry, aged>> /\ req[h].pc = "age"
  BY <1>1, OneMoves DEF TestAge
<1>3. CASE stamp # None /\ IsCacheValid
  <2>1. r.pc = "member" /\ r.tested = now
    <3>1. req' = [req EXCEPT ![h] = [req[h] EXCEPT !.pc = "member", !.tested = now]]
      BY <1>3 DEF TestAge, Serves
    <3>2. IsReq(req[h]) /\ req'[h] = [req[h] EXCEPT !.pc = "member", !.tested = now]
      BY <3>1 DEF Requests, Request
    <3>3. QED
      BY <1>2, <3>2 DEF IsReq, ReqFields
  <2>2. (Winding' => Winding) /\ (Committed => Committed')
    BY <1>2, <2>1 DEF Winding, Committed
  <2>3. \A k \in DOMAIN cache \ aged : now - entry[k].at < Ttl
    BY <1>3, SettingsAssumption DEF IsCacheValid, CacheInv, ClockInv, AgeInv
  <2>4. ClockInv' /\ EntriesInv' /\ AgeInv'
    BY <1>2, <2>2 DEF CacheInv, ClockInv, EntriesInv, AgeInv
  <2>5. TestedInv'
    <3> SUFFICES ASSUME NEW g \in Http, req'[g].pc \in {"member", "lookup"}
                 PROVE  /\ req'[g].tested \in Nat /\ req'[g].tested <= now
                        /\ \A k \in DOMAIN cache \ aged : req'[g].tested - entry[k].at < Ttl
      BY <1>2 DEF TestedInv
    <3>1. CASE g = h
      BY <1>2, <2>1, <2>3, <3>1 DEF CacheInv, ClockInv
    <3>2. CASE g # h
      BY <1>2, <3>2 DEF CacheInv, TestedInv
    <3>3. QED
      BY <3>1, <3>2
  <2>6. FreshInv'
    BY <1>2, <2>2 DEF CacheInv, FreshInv, Stored
  <2>7. QED
    BY <2>4, <2>5, <2>6 DEF CacheInv
<1>4. CASE ~(stamp # None /\ IsCacheValid)
  <2>1. r.pc \in {"free", "read"}
    <3>1. req' = [req EXCEPT ![h] = Says("missing")] \/ req' = [req EXCEPT ![h] = [req[h] EXCEPT !.pc = "read"]]
      BY <1>4 DEF TestAge, Serves
    <3>2. IsReq(req[h]) /\ (req'[h] = Says("missing") \/ req'[h] = [req[h] EXCEPT !.pc = "read"])
      BY <3>1 DEF Requests, Request
    <3>3. Says("missing").pc = "free" /\ [req[h] EXCEPT !.pc = "read"].pc = "read"
      BY <3>2, AnswerIsRequest DEF IsReq, ReqFields
    <3>4. QED
      BY <1>2, <3>2, <3>3
  <2>2. QED
    BY <1>1, <1>2, <2>1, CacheFrame
<1>5. QED
  BY <1>3, <1>4

LEMMA LagOf ==
  ASSUME NEW e, NEW n, NEW a, NEW b, e = [at |-> n, lag |-> a # b]
  PROVE  a = b \/ e.lag
  OBVIOUS

LEMMA CacheStore ==
  ASSUME NEW h \in Http, Requests, CacheInv, StoreEntry(h)
  PROVE  CacheInv'
<1> DEFINE key == req[h].key
           value == req[h].value
           old == DOMAIN cache
<1>1. key \in Keys \ Sensitive /\ value # None /\ req[h].pc = "store" /\ IsReq(req[h])
  BY DEF StoreEntry, Requests, Request, Looking
<1>2. req'[h].pc = "clock" /\ \A g \in Http \ {h} : req'[g] = req[g]
  <2>1. req' = [req EXCEPT ![h] = [req[h] EXCEPT !.pc = "clock"]]
    BY DEF StoreEntry, Serves
  <2>2. QED
    BY <1>1, <2>1 DEF Requests, IsReq, ReqFields
<1>3. /\ Committed' <=> Committed
      /\ Winding' <=> Winding
  BY <1>1, <1>2 DEF Committed, Winding, StoreEntry
<1>4. /\ DOMAIN cache' = old \cup {key}
      /\ cache'[key] = value
      /\ \A k \in old \ {key} : cache'[k] = cache[k]
  BY DEF StoreEntry, Put
<1>5. /\ DOMAIN entry' = DOMAIN entry \cup {key}
      /\ entry'[key] = [at |-> now, lag |-> value # Stored(setting, key)]
      /\ \A k \in DOMAIN entry \ {key} : entry'[k] = entry[k]
  BY DEF StoreEntry, Put
<1>6. aged' = aged \ {key} /\ setting' = setting /\ now' = now /\ stamp' = stamp
  BY DEF StoreEntry
<1> HIDE DEF key, value
<1>7. now \in Nat /\ (stamp # None => stamp \in Nat /\ stamp <= now)
  BY DEF CacheInv, ClockInv
<1>8. ClockInv' /\ EntriesInv'
  BY <1>1, <1>4, <1>5, <1>6, <1>7 DEF CacheInv, ClockInv, EntriesInv
<1>9. AgeInv'
  <2> SUFFICES ASSUME NEW k \in DOMAIN cache' \ aged'
               PROVE  /\ entry'[k].at \in Nat /\ entry'[k].at <= now'
                      /\ stamp' # None => stamp' <= entry'[k].at
                      /\ Winding' => entry'[k].at = now'
    BY DEF AgeInv
  <2>1. CASE k = key
    BY <1>5, <1>6, <1>7, <2>1
  <2>2. CASE k # key
    <3>1. k \in old \ aged /\ entry'[k] = entry[k]
      BY <1>4, <1>5, <1>6, <2>2 DEF CacheInv, EntriesInv
    <3>2. QED
      BY <1>3, <1>6, <3>1 DEF CacheInv, AgeInv
  <2>3. QED
    BY <2>1, <2>2
<1>10. TestedInv'
  <2> SUFFICES ASSUME NEW g \in Http, req'[g].pc \in {"member", "lookup"}
               PROVE  /\ req'[g].tested \in Nat /\ req'[g].tested <= now
                      /\ \A k \in DOMAIN cache' \ aged' : req'[g].tested - entry'[k].at < Ttl
    BY <1>6 DEF TestedInv
  <2>1. /\ req[g].tested \in Nat /\ req[g].tested <= now /\ req'[g] = req[g]
        /\ \A k \in DOMAIN cache \ aged : req[g].tested - entry[k].at < Ttl
    BY <1>2 DEF CacheInv, TestedInv
  <2>2. ASSUME NEW k \in DOMAIN cache' \ aged' PROVE req[g].tested - entry'[k].at < Ttl
    <3>1. CASE k = key
      <4>1. entry'[k].at = now
        BY <1>5, <3>1
      <4>2. QED
        BY <1>7, <2>1, <4>1, SettingsAssumption
    <3>2. CASE k # key
      <4>1. k \in old \ aged /\ entry'[k] = entry[k]
        BY <1>4, <1>5, <1>6, <3>2 DEF CacheInv, EntriesInv
      <4>2. QED
        BY <2>1, <4>1
    <3>3. QED
      BY <3>1, <3>2
  <2>3. QED
    BY <2>1, <2>2
<1>11. FreshInv'
  <2> SUFFICES ASSUME NEW k \in DOMAIN cache'
               PROVE  \/ entry'[k].lag
                      \/ Committed'
                      \/ cache'[k] = Stored(setting', k) /\ Stored(setting', k) # None
    BY DEF FreshInv, Stored
  <2>1. CASE k = key
    <3>1. value = Stored(setting, key) \/ entry'[k].lag
      <4> DEFINE is == Stored(setting, key)
                 e == entry'[key]
      <4>1. e = [at |-> now, lag |-> value # is]
        BY <1>5
      <4> HIDE DEF is, e
      <4>2. value = is \/ e.lag
        BY <4>1, LagOf
      <4>3. QED
        BY <2>1, <4>2 DEF is, e
    <3>2. cache'[k] = value /\ Stored(setting', k) = Stored(setting, key)
      BY <1>4, <1>6, <2>1
    <3>3. QED
      BY <1>1, <3>1, <3>2
  <2>2. CASE k # key
    BY <1>3, <1>4, <1>5, <1>6, <2>2 DEF CacheInv, EntriesInv, FreshInv
  <2>3. QED
    BY <2>1, <2>2
<1>12. QED
  BY <1>8, <1>9, <1>10, <1>11 DEF CacheInv

(* The clock starts and stops only while every entry is of this second, or   *)
(* known to be older.                                                        *)
LEMMA CacheClock ==
  ASSUME NEW h \in Http, Requests, CacheInv, StartClock(h) \/ ClearStamp(h)
  PROVE  CacheInv'
<1>1. PICK r : Serving(h, r) /\ r.pc \in {"free", "write"} /\ req[h].pc \in {"stamp", "unstamp"}
  <2>1. CASE ClearStamp(h)
    BY <2>1, EmptyingSteps
  <2>2. CASE StartClock(h)
    BY <2>2, AnswerIsRequest DEF StartClock, Serves, Serving
  <2>3. QED
    BY <2>1, <2>2
<1>2. req'[h] = r /\ \A g \in Http \ {h} : req'[g] = req[g]
  BY <1>1, OneMoves
<1>3. /\ UNCHANGED <<setting, cache, now, entry, aged>>
      /\ stamp' = now \/ stamp' = None
  BY DEF StartClock, ClearStamp
<1>4. \A k \in DOMAIN cache \ aged : entry[k].at \in Nat /\ entry[k].at = now
  BY <1>1 DEF CacheInv, AgeInv, Winding
<1>5. ClockInv' /\ EntriesInv'
  BY <1>3, SettingsAssumption DEF CacheInv, ClockInv, EntriesInv
<1>6. AgeInv'
  BY <1>3, <1>4 DEF AgeInv
<1>7. TestedInv'
  BY <1>1, <1>2, <1>3 DEF CacheInv, TestedInv
<1>8. FreshInv'
  <2>1. Committed => Committed'
    BY <1>1, <1>2 DEF Committed
  <2>2. QED
    BY <1>3, <2>1 DEF CacheInv, FreshInv, Stored
<1>9. QED
  BY <1>5, <1>6, <1>7, <1>8 DEF CacheInv

LEMMA CacheClear ==
  ASSUME NEW h \in Http, Requests, CacheInv, ClearCache(h)
  PROVE  CacheInv'
<1>1. DOMAIN cache' = {} /\ DOMAIN entry' = {} /\ UNCHANGED <<stamp, now>>
  BY DEF ClearCache, Empty
<1>2. PICK r : Serving(h, r) /\ r.pc = "unstamp"
  BY EmptyingSteps
<1>3. req'[h] = r /\ \A g \in Http \ {h} : req'[g] = req[g]
  BY <1>2, OneMoves
<1>4. TestedInv'
  BY <1>1, <1>2, <1>3 DEF CacheInv, TestedInv
<1>5. QED
  BY <1>1, <1>4 DEF CacheInv, ClockInv, EntriesInv, AgeInv, FreshInv

LEMMA CacheWrite ==
  ASSUME NEW h \in Http, Requests, CacheInv, WriteSetting(h) \/ RefuseItem(h) \/ AbortBatch(h)
  PROVE  CacheInv'
<1>1. PICK r : /\ Serving(h, r)
               /\ req[h].pc = "write" /\ r.pc \in {"free", "write", "clear"}
               /\ r.pc # "clear" => UNCHANGED setting
  BY WriteSteps
<1>2. /\ req'[h] = r /\ \A g \in Http \ {h} : req'[g] = req[g]
      /\ UNCHANGED <<cache, stamp, now, entry, aged>>
  BY <1>1, OneMoves DEF WriteSetting, RefuseItem, AbortBatch
<1>3. CASE r.pc # "clear"
  BY <1>1, <1>2, <1>3, CacheFrame
<1>4. CASE r.pc = "clear"
  <2>1. Committed' /\ (Winding' => Winding)
    BY <1>1, <1>2, <1>4 DEF Committed, Winding
  <2>2. ClockInv' /\ EntriesInv' /\ AgeInv' /\ FreshInv'
    BY <1>2, <2>1 DEF CacheInv, ClockInv, EntriesInv, AgeInv, FreshInv
  <2>3. TestedInv'
    BY <1>2, <1>4 DEF CacheInv, TestedInv
  <2>4. QED
    BY <2>2, <2>3 DEF CacheInv
<1>5. QED
  BY <1>3, <1>4

LEMMA CacheTick ==
  ASSUME CacheInv, Tick
  PROVE  CacheInv'
<1>1. /\ UNCHANGED <<setting, cache, stamp, req, entry>> /\ now' = now + 1 /\ now \in Nat
      /\ aged' = IF Winding THEN DOMAIN cache ELSE aged
  BY DEF Tick, CacheInv, ClockInv
<1>2. (Winding' <=> Winding) /\ (Committed' <=> Committed)
  BY <1>1 DEF Winding, Committed
<1>3. DOMAIN cache' \ aged' \subseteq DOMAIN cache \ aged /\ (Winding => DOMAIN cache' \ aged' = {})
  BY <1>1
<1>4. ClockInv' /\ EntriesInv'
  BY <1>1 DEF CacheInv, ClockInv, EntriesInv
<1>5. AgeInv'
  BY <1>1, <1>2, <1>3 DEF CacheInv, AgeInv
<1>6. TestedInv'
  BY <1>1, <1>3 DEF CacheInv, TestedInv
<1>7. FreshInv'
  BY <1>1, <1>2 DEF CacheInv, FreshInv, Stored
<1>8. QED
  BY <1>4, <1>5, <1>6, <1>7 DEF CacheInv

LEMMA CacheStep == Requests /\ CacheInv /\ [SettingsNext]_settingVars => CacheInv'
<1> SUFFICES ASSUME Requests, CacheInv, [SettingsNext]_settingVars PROVE CacheInv'
  OBVIOUS
<1>0. \A h \in Http : Request(req[h]) /\ IsReq(req[h])
  BY DEF Requests, Request
<1>1. ASSUME NEW h \in Http, Begins(h) PROVE CacheInv'
  <2>1. PICK r : Begin(h, r) /\ Serving(h, r) /\ r.pc \in {"free", "read", "age", "write"}
    BY <1>1 DEF Begins
  <2>2. UNCHANGED <<setting, cache, stamp, now, entry, aged>> /\ req[h].pc = "free"
    BY <2>1 DEF Begin
  <2>3. QED
    BY <2>1, <2>2, CacheFrame
<1>2. ASSUME NEW h \in Http, NEW key \in Keys, NEW v,
             \/ GetSetting(h, key) \/ UpdateSetting(h, key, v) \/ CreateSetting(h, key, v)
             \/ DeleteSetting(h, key)
      PROVE  CacheInv'
  BY <1>1, <1>2, KeySteps
<1>3. ASSUME NEW h \in Http, NEW items, NEW v,
             BatchUpdateSettings(h, items, v) \/ UpdateCollectionConfig(h, items, v)
      PROVE  CacheInv'
  BY <1>1, <1>3, BatchSteps
<1>4. ASSUME NEW h \in Http, TestMember(h) PROVE CacheInv'
  <2>1. PICK pc \in {"lookup", "read"} : Serves(h, [req[h] EXCEPT !.pc = pc])
    BY <1>4 DEF TestMember
  <2> DEFINE x == [req[h] EXCEPT !.pc = pc]
  <2>2. x.pc = pc /\ x.tested = req[h].tested /\ IsReq(x) /\ req[h].pc = "member"
    BY <1>0, <1>4 DEF IsReq, ReqFields, TestMember
  <2>3. \A f \in {"asked", "todo", "written", "updated", "failed", "key"} : x[f] = req[h][f]
    BY <1>0 DEF IsReq, ReqFields
  <2>4. Serves(h, x)
    BY <2>1
  <2> HIDE DEF x
  <2>5. Request(x)
    BY <1>0, <2>2, <2>3, LookMoves DEF Looking
  <2>6. UNCHANGED <<setting, cache, stamp, now, entry, aged>> /\ Serving(h, x)
    BY <1>4, <2>4, <2>5 DEF TestMember, Serves, Serving
  <2>7. QED
    BY <2>2, <2>6, CacheFrame
<1>5. ASSUME NEW h \in Http, LookUp(h) PROVE CacheInv'
  <2>1. PICK a : Serves(h, Says(a)) /\ a # "unnamed"
    BY <1>5 DEF LookUp
  <2>2. Serving(h, Says(a)) /\ Says(a).pc = "free"
    BY <2>1, AnswerIsRequest DEF Serves, Serving
  <2>3. UNCHANGED <<setting, cache, stamp, now, entry, aged>> /\ req[h].pc = "lookup"
    BY <1>5 DEF LookUp
  <2>4. QED
    BY <2>2, <2>3, CacheFrame
<1>6. ASSUME NEW h \in Http, ReadSetting(h) PROVE CacheInv'
  <2> DEFINE read == IF up THEN Stored(setting, req[h].key) ELSE None
             x == [req[h] EXCEPT !.pc = "store", !.value = read]
  <2>1. PICK r : Serving(h, r)
    BY <1>6, LookSteps DEF LookStep
  <2>2. req'[h] = r
    BY <2>1, OneMoves
  <2>3. req'[h] = Says("missing") \/ req'[h] = x
    BY <1>6 DEF ReadSetting, Serves, Requests
  <2>4. Says("missing").pc = "free" /\ x.pc = "store"
    BY <1>0, AnswerIsRequest DEF IsReq, ReqFields
  <2> HIDE DEF x
  <2>5. r.pc \in {"free", "store"}
    BY <2>2, <2>3, <2>4
  <2>6. UNCHANGED <<setting, cache, stamp, now, entry, aged>> /\ req[h].pc = "read"
    BY <1>6 DEF ReadSetting
  <2>7. QED
    BY <2>1, <2>5, <2>6, CacheFrame
<1>7. ASSUME NEW h \in Http, TestClock(h) PROVE CacheInv'
  <2> DEFINE x == [req[h] EXCEPT !.pc = "stamp"]
  <2>1. PICK r : Serving(h, r)
    BY <1>7, LookSteps DEF LookStep
  <2>2. req'[h] = r
    BY <2>1, OneMoves
  <2>3. req'[h] = Says("done") \/ (req'[h] = x /\ stamp = None)
    BY <1>7 DEF TestClock, Serves, Requests
  <2>4. Says("done").pc = "free" /\ x.pc = "stamp"
    BY <1>0, AnswerIsRequest DEF IsReq, ReqFields
  <2> HIDE DEF x
  <2>5. r.pc = "free" \/ (r.pc = "stamp" /\ stamp = None)
    BY <2>2, <2>3, <2>4
  <2>6. UNCHANGED <<setting, cache, stamp, now, entry, aged>> /\ req[h].pc = "clock"
    BY <1>7 DEF TestClock
  <2>7. QED
    BY <2>1, <2>5, <2>6, CacheFrame
<1>8. ASSUME Outage \/ UNCHANGED settingVars PROVE CacheInv'
  <2>1. UNCHANGED <<setting, cache, stamp, now, entry, aged, req>>
    BY <1>8 DEF Outage, settingVars
  <2>2. (Winding' <=> Winding) /\ (Committed' <=> Committed)
    BY <2>1 DEF Winding, Committed
  <2>3. QED
    BY <2>1, <2>2 DEF CacheInv, ClockInv, EntriesInv, AgeInv, TestedInv, FreshInv, Stored
<1>9. QED
  BY <1>2, <1>3, <1>4, <1>5, <1>6, <1>7, <1>8, CacheTest, CacheStore, CacheClock, CacheClear, CacheWrite,
     CacheTick DEF SettingsNext

(* A setting about to be answered from the cache was stored less than the    *)
(* time to live before its reader looked at the clock, unless it saw a tick  *)
(* while the clock was about to be started or stopped, and it is what the    *)
(* list shows, unless its own reader lagged behind a commit or its writer is *)
(* on the way to the cache.                                                  *)
THEOREM SettingsAreRecent == SystemSpec => []CachedSettingsAreRecent
<1>1. SystemInit => Requests /\ CacheInv
  BY RequestsInit, CacheInit DEF SystemInit
<1>2. Requests /\ CacheInv /\ [SystemNext]_<<settingVars, credentialVars>> => (Requests /\ CacheInv)'
  BY RequestsStep, CacheStep, SettingsSteps
<1>3. CacheInv => CachedSettingsAreRecent
  <2> SUFFICES ASSUME CacheInv, NEW h \in Http, req[h].pc = "lookup", req[h].key \in DOMAIN cache
               PROVE  /\ req[h].key \in aged \/ req[h].tested - entry[req[h].key].at < Ttl
                      /\ \/ /\ req[h].key \in DOMAIN GetAllSettings(setting)
                            /\ cache[req[h].key] = GetAllSettings(setting)[req[h].key]
                         \/ entry[req[h].key].lag
                         \/ \E g \in Http : req[g].pc = "clear"
    BY DEF CachedSettingsAreRecent
  <2> DEFINE k == req[h].key
  <2>1. k \in aged \/ req[h].tested - entry[k].at < Ttl
    BY DEF CacheInv, TestedInv
  <2>2. k \in Keys \ Sensitive
    BY DEF CacheInv, EntriesInv
  <2>3. CASE cache[k] = Stored(setting, k) /\ Stored(setting, k) # None
    BY <2>1, <2>2, <2>3 DEF GetAllSettings
  <2>4. QED
    BY <2>1, <2>3 DEF CacheInv, FreshInv, Committed
<1>4. QED
  BY <1>1, <1>2, <1>3, PTL DEF SystemSpec

-----------------------------------------------------------------------------
(* Rows of credentials *)

(* A row that is not sealed holds no key, and the two copies of the name are *)
(* one: that is what the readers of either copy live on.  As long as no      *)
(* reader of an older row has written, the password is the one given last.   *)
Sound(r, password, late) ==
    /\ IsRow(r)
    /\ ~r.encrypted => r.payload.key = None
    /\ r.payload.key # None => r.payload.user = r.user
    /\ ~late => /\ r.payload.password = password
                /\ r.encrypted <=> r.payload.key # None

RowsInv ==
    /\ appKey \in MasterKeys
    /\ version \in [Sources -> Nat]
    /\ overtaken \in [Sources -> BOOLEAN]
    /\ latest = [s \in Sources |-> latest[s]]
    /\ row = [s \in Sources |-> row[s]]
    /\ \A s \in Sources : row[s] # Absent => Sound(row[s], latest[s], overtaken[s])

(* What a thread is about to save is given by its request, or is older than  *)
(* the row, or completes it, or is the password that the row holds.          *)
Lacking(r) == r = Absent \/ "" \in {r.user, r.payload.password}
Due(r, v, rows, versions) ==
    /\ v.source \in Sources
    /\ v.given \in BOOLEAN
    /\ ~v.given /\ r.seen[v.source] = versions[v.source] =>
           \/ r.op = "seed" /\ Lacking(rows[v.source])
           \/ IsRow(rows[v.source]) /\ v.password = rows[v.source].payload.password

(* A payload that was read can be opened with the key of the process, was    *)
(* marked as sealed if it is, and is the row's as long as nobody wrote it.   *)
AsRead(r, rows, versions, key) ==
    LET of   == rows[r.form.source]
        body == r.payload.body
    IN  /\ body = [f \in {"key", "user", "password"} |-> body[f]]
        /\ body.key \in {None, key}
        /\ body.key # None => r.payload.encrypted /\ of.encrypted
        /\ r.seen[r.form.source] = versions[r.form.source] => body = of.payload

CallFields == {"pc", "op", "form", "saves", "payload", "seen", "pair", "failed", "phases", "code",
               "collect", "answer"}
IsCall(r) == r = [f \in CallFields |-> r[f]]

Sight(r, rows, versions, key) ==
    /\ IsCall(r)
    /\ \A s \in Sources : r.seen[s] \in Nat /\ r.seen[s] <= versions[s]
    /\ r.pc = "save" =>
           /\ r.saves # <<>>
           /\ \E S : r.saves \in Seq(S) /\ \A v \in S : Due(r, v, rows, versions)
    /\ r.pc = "current" => r.op \in {"put", "password", "initialize"}
    /\ r.pc \in {"current", "select", "update"} => r.form.source \in Sources
    /\ r.pc \in {"select", "update"} =>
           LET of == rows[r.form.source] IN IsRow(of) /\ of.payload.key \in {None, key}
    /\ r.pc = "update" => AsRead(r, rows, versions, key)

CallsInv ==
    /\ call = [t \in Threads |-> call[t]]
    /\ \A t \in Threads : Sight(call[t], row, version, appKey)

CredInv == RowsInv /\ CallsInv

LEMMA RowIsThere ==
  ASSUME NEW r, IsRow(r)
  PROVE  r # Absent
  BY DEF IsRow, Absent

LEMMA NothingIsCall == IsCall(Nothing) /\ Nothing.pc = "free" /\ \A s \in Sources : Nothing.seen[s] = 0
  BY DEF IsCall, CallFields, Nothing

LEMMA QuietSight ==
  ASSUME NEW r, NEW rows, NEW versions, NEW key, IsCall(r),
         \A s \in Sources : r.seen[s] \in Nat /\ r.seen[s] <= versions[s],
         r.pc \notin {"save", "current", "select", "update"}
  PROVE  Sight(r, rows, versions, key)
  BY DEF Sight

LEMMA CredInit == SystemInit => CredInv
<1> SUFFICES ASSUME SystemInit PROVE CredInv
  OBVIOUS
<1>1. RowsInv
  <2>1. appKey \in MasterKeys
    BY CredentialsAssumption DEF SystemInit, InitCredentials
  <2>2. row = [s \in Sources |-> row[s]]
    BY RowsAssumption DEF SystemInit, InitCredentials
  <2>3. ASSUME NEW s \in Sources, row[s] # Absent PROVE Sound(row[s], latest[s], overtaken[s])
    <3>1. /\ IsRow(row[s])
          /\ row[s].encrypted <=> row[s].payload.key # None
          /\ row[s].encrypted => row[s].payload.user = row[s].user
      BY <2>3, RowsAssumption DEF SystemInit, InitCredentials
    <3>2. latest[s] = row[s].payload.password
      BY <2>3 DEF SystemInit, InitCredentials
    <3>3. QED
      BY <3>1, <3>2 DEF Sound
  <2>4. QED
    BY <2>1, <2>2, <2>3 DEF RowsInv, SystemInit, InitCredentials
<1>2. CallsInv
  <2>1. call = [t \in Threads |-> IF t = Seeder THEN [Nothing EXCEPT !.pc = "check"] ELSE Nothing]
    BY DEF SystemInit, InitCredentials
  <2>2. \A s \in Sources : version[s] = 0
    BY DEF SystemInit, InitCredentials
  <2>3. Sight(Nothing, row, version, appKey)
    BY <2>2, NothingIsCall, QuietSight
  <2>4. Sight([Nothing EXCEPT !.pc = "check"], row, version, appKey)
    <3> DEFINE r == [Nothing EXCEPT !.pc = "check"]
    <3>1. IsCall(r) /\ r.pc = "check" /\ \A s \in Sources : r.seen[s] = 0
      BY DEF IsCall, CallFields, Nothing
    <3> HIDE DEF r
    <3>2. Sight(r, row, version, appKey)
      BY <2>2, <3>1, QuietSight
    <3>3. QED
      BY <3>2 DEF r
  <2>5. QED
    BY <2>1, <2>3, <2>4 DEF CallsInv
<1>3. QED
  BY <1>1, <1>2 DEF CredInv

(* A row that is written while another thread is at work. *)
LEMMA SightOfWrite ==
  ASSUME NEW rows, NEW versions \in [Sources -> Nat], NEW key, NEW r, Sight(r, rows, versions, key),
         NEW newRows, NEW newVersions, NEW s \in Sources,
         \A x \in Sources \ {s} : newRows[x] = rows[x] /\ newVersions[x] = versions[x],
         newVersions[s] = versions[s] + 1,
         IsRow(newRows[s]), newRows[s].payload.key \in {None, key},
         IsRow(rows[s]) /\ rows[s].encrypted => newRows[s].encrypted
  PROVE  Sight(r, newRows, newVersions, key)
<1>1. /\ newVersions[s] = versions[s] + 1
      /\ \A x \in Sources \ {s} : newRows[x] = rows[x] /\ newVersions[x] = versions[x]
  OBVIOUS
<1>2. \A x \in Sources : versions[x] \in Nat
  OBVIOUS
<1>3. \A x \in Sources : r.seen[x] \in Nat /\ r.seen[x] <= newVersions[x]
  BY <1>1, <1>2 DEF Sight
<1>4. r.seen[s] # newVersions[s]
  <2>1. r.seen[s] \in Nat /\ r.seen[s] <= versions[s]
    BY DEF Sight
  <2>2. QED
    BY <1>1, <1>2, <2>1
<1>5. ASSUME NEW v, Due(r, v, rows, versions) PROVE Due(r, v, newRows, newVersions)
  BY <1>1, <1>4, <1>5 DEF Due
<1>6. r.pc = "save" => \E S : r.saves \in Seq(S) /\ \A v \in S : Due(r, v, newRows, newVersions)
  BY <1>5 DEF Sight
<1>7. r.pc \in {"select", "update"} =>
          IsRow(newRows[r.form.source]) /\ newRows[r.form.source].payload.key \in {None, key}
  BY <1>1 DEF Sight
<1>8. r.pc = "update" => AsRead(r, newRows, newVersions, key)
  <2> SUFFICES ASSUME r.pc = "update" PROVE AsRead(r, newRows, newVersions, key)
    OBVIOUS
  <2>1. AsRead(r, rows, versions, key) /\ IsRow(rows[r.form.source]) /\ r.form.source \in Sources
    BY DEF Sight
  <2>2. CASE r.form.source = s
    BY <1>1, <1>4, <2>1, <2>2 DEF AsRead
  <2>3. CASE r.form.source # s
    BY <1>1, <2>1, <2>3 DEF AsRead
  <2>4. QED
    BY <2>2, <2>3
<1>9. QED
  BY <1>3, <1>6, <1>7, <1>8 DEF Sight

(* A row that is switched off or on keeps everything a thread has read. *)
LEMMA SightOfSwitch ==
  ASSUME NEW s \in Sources, NEW rows, NEW versions, NEW key, NEW active \in BOOLEAN,
         NEW r, Sight(r, rows, versions, key),
         rows = [x \in Sources |-> rows[x]], IsRow(rows[s])
  PROVE  Sight(r, [rows EXCEPT ![s].active = active], versions, key)
<1> DEFINE n == [rows[s] EXCEPT !.active = active]
           newRows == [rows EXCEPT ![s] = n]
<1>0. [rows EXCEPT ![s].active = active] = newRows
  OBVIOUS
<1>1. /\ newRows[s] = n
      /\ \A x \in Sources \ {s} : newRows[x] = rows[x]
  OBVIOUS
<1>2. /\ IsRow(n) /\ n.payload = rows[s].payload /\ n.encrypted = rows[s].encrypted
      /\ n.user = rows[s].user
  BY DEF IsRow
<1>3. Lacking(rows[s]) => Lacking(n)
  BY <1>2, RowIsThere DEF Lacking
<1> HIDE DEF n, newRows
<1>4. ASSUME NEW v, Due(r, v, rows, versions) PROVE Due(r, v, newRows, versions)
  <2>1. v.source \in Sources
    BY <1>4 DEF Due
  <2>2. CASE v.source = s
    BY <1>1, <1>2, <1>3, <1>4, <2>2 DEF Due
  <2>3. CASE v.source # s
    BY <1>1, <1>4, <2>1, <2>3 DEF Due
  <2>4. QED
    BY <2>2, <2>3
<1>5. r.pc = "save" => \E S : r.saves \in Seq(S) /\ \A v \in S : Due(r, v, newRows, versions)
  BY <1>4 DEF Sight
<1>6. r.pc \in {"select", "update"} =>
          IsRow(newRows[r.form.source]) /\ newRows[r.form.source].payload.key \in {None, key}
  BY <1>1, <1>2 DEF Sight
<1>7. r.pc = "update" => AsRead(r, newRows, versions, key)
  BY <1>1, <1>2 DEF Sight, AsRead
<1>8. Sight(r, newRows, versions, key)
  BY <1>5, <1>6, <1>7 DEF Sight
<1>9. QED
  BY <1>0, <1>8

(* One thread moves on; no row is written. *)
LEMMA MovesOn ==
  ASSUME CredInv, NEW t \in Threads, NEW r, Sight(r, row, version, appKey),
         call' = [call EXCEPT ![t] = r], UNCHANGED <<row, appKey, history>>
  PROVE  CredInv'
<1>1. RowsInv'
  BY DEF CredInv, RowsInv, history
<1>2. CallsInv'
  BY DEF CredInv, CallsInv, history
<1>3. QED
  BY <1>1, <1>2 DEF CredInv

(* One thread moves on as it writes a row. *)
LEMMA WritesRow ==
  ASSUME CredInv, NEW t \in Threads, NEW s \in Sources, NEW n, NEW r,
         row' = [row EXCEPT ![s] = n], version' = [version EXCEPT ![s] = @ + 1],
         appKey' = appKey, call' = [call EXCEPT ![t] = r],
         latest' = [x \in Sources |-> latest'[x]], overtaken' \in [Sources -> BOOLEAN],
         \A x \in Sources \ {s} : latest'[x] = latest[x] /\ overtaken'[x] = overtaken[x],
         Sound(n, latest'[s], overtaken'[s]), n.payload.key \in {None, appKey},
         row[s] # Absent /\ row[s].encrypted => n.encrypted,
         Sight(r, row, version, appKey) \/ Sight(r, row', version', appKey)
  PROVE  CredInv'
<1>0. /\ version \in [Sources -> Nat] /\ row = [x \in Sources |-> row[x]] /\ IsRow(n)
      /\ IsRow(row[s]) /\ row[s].encrypted => n.encrypted
  BY RowIsThere DEF CredInv, RowsInv, Sound
<1>1. ASSUME NEW q, Sight(q, row, version, appKey) PROVE Sight(q, row', version', appKey')
  <2>1. n.payload.key \in {None, appKey}
    OBVIOUS
  <2>2. /\ row'[s] = n
        /\ version'[s] = version[s] + 1
        /\ \A x \in Sources \ {s} : row'[x] = row[x] /\ version'[x] = version[x]
    BY <1>0
  <2>3. Sight(q, row', version', appKey)
    <3>1. /\ IsRow(row'[s]) /\ row'[s].payload.key \in {None, appKey}
          /\ IsRow(row[s]) /\ row[s].encrypted => row'[s].encrypted
      BY <1>0, <2>1, <2>2
    <3>2. version \in [Sources -> Nat]
      BY <1>0
    <3>3. QED
      BY ONLY <1>1, <2>2, <3>1, <3>2, s \in Sources, SightOfWrite
  <2>4. QED
    BY <2>3
<1>2. RowsInv'
  <2>1. version' \in [Sources -> Nat] /\ row' = [x \in Sources |-> row'[x]]
    BY <1>0
  <2>2. ASSUME NEW x \in Sources, row'[x] # Absent PROVE Sound(row'[x], latest'[x], overtaken'[x])
    <3>1. CASE x = s
      BY <1>0, <3>1
    <3>2. CASE x # s
      BY <1>0, <2>2, <3>2 DEF CredInv, RowsInv
    <3>3. QED
      BY <3>1, <3>2
  <2>3. QED
    BY <2>1, <2>2 DEF CredInv, RowsInv
<1>3. CallsInv'
  <2>1. \A u \in Threads : Sight(call[u], row', version', appKey')
    BY <1>1 DEF CredInv, CallsInv
  <2>2. Sight(r, row', version', appKey')
    BY <1>1
  <2>3. QED
    BY <2>1, <2>2 DEF CredInv, CallsInv
<1>4. QED
  BY <1>2, <1>3 DEF CredInv

(* A request that has read nothing yet. *)
Fresh(r) == IsCall(r) /\ \A s \in Sources : r.seen[s] = 0

LEMMA FreshSight ==
  ASSUME NEW r, Fresh(r), NEW rows, NEW versions \in [Sources -> Nat], NEW key,
         r.pc \notin {"save", "select", "update"}, r.pc = "current" => r.form.source \in Sources /\ r.op \in {"put", "password", "initialize"}
  PROVE  Sight(r, rows, versions, key)
<1>1. \A s \in Sources : r.seen[s] \in Nat /\ r.seen[s] <= versions[s]
  BY DEF Fresh
<1>2. QED
  BY <1>1 DEF Fresh, Sight

LEMMA GivenSight ==
  ASSUME NEW op, NEW v, v.source \in Sources, v.given = TRUE,
         NEW rows, NEW versions \in [Sources -> Nat], NEW key
  PROVE  Sight(Saving(op, <<v>>), rows, versions, key)
<1> DEFINE r == Saving(op, <<v>>)
<1>1. Fresh(r) /\ r.pc = "save" /\ r.saves = <<v>>
  BY DEF Fresh, IsCall, CallFields, Saving, Nothing
<1> HIDE DEF r
<1>2. \A s \in Sources : r.seen[s] \in Nat /\ r.seen[s] <= versions[s]
  BY <1>1 DEF Fresh
<1>3. Due(r, v, rows, versions)
  BY Zenon DEF Due
<1>4. <<v>> # <<>> /\ <<v>> \in Seq({v})
  OBVIOUS
<1>5. \E S : r.saves \in Seq(S) /\ \A w \in S : Due(r, w, rows, versions)
  <2> DEFINE S == {v}
  <2>1. r.saves \in Seq(S) /\ \A w \in S : Due(r, w, rows, versions)
    BY <1>1, <1>3, <1>4
  <2> HIDE DEF S
  <2>2. QED
    BY <2>1
<1>6. Sight(r, rows, versions, key)
  BY <1>1, <1>2, <1>4, <1>5 DEF Fresh, Sight
<1>7. QED
  BY <1>6 DEF r

LEMMA FreshAnswer ==
  ASSUME NEW x
  PROVE  Fresh(Answered(x)) /\ Answered(x).pc = "free"
  BY DEF Fresh, IsCall, CallFields, Answered, Nothing

(* What follows a save has nothing more to write. *)
LEMMA SavedSight ==
  ASSUME NEW r, NEW rows, NEW versions \in [Sources -> Nat], NEW key
  PROVE  Sight(Saved(r), rows, versions, key)
<1>1. Saved(r) \in {Answered(200), Answered(500), [Nothing EXCEPT !.pc = "phase1", !.op = r.op]}
  BY DEF Saved
<1>2. \A x : Fresh(Answered(x)) /\ Answered(x).pc = "free"
  BY FreshAnswer
<1>3. LET y == [Nothing EXCEPT !.pc = "phase1", !.op = r.op] IN Fresh(y) /\ y.pc = "phase1"
  BY DEF Fresh, IsCall, CallFields, Nothing
<1>4. Fresh(Saved(r)) /\ Saved(r).pc \in {"free", "phase1"}
  <2> DEFINE y == [Nothing EXCEPT !.pc = "phase1", !.op = r.op]
  <2>1. Saved(r) = Answered(200) \/ Saved(r) = Answered(500) \/ Saved(r) = y
    BY <1>1
  <2>2. Fresh(y) /\ y.pc = "phase1"
    BY <1>3
  <2> HIDE DEF y
  <2>3. QED
    BY <1>2, <2>1, <2>2
<1>5. QED
  BY <1>4, FreshSight

LEMMA RequestsKeep ==
  ASSUME CredInv, NEW t \in Http,
         \/ \E f \in Forms : ManageCredentials(t, f)
         \/ \E user \in Users, password \in Passwords :
                \/ SetRegtechCredentials(t, user, password)
                \/ ApiSaveCredentials(t, user, password)
                \/ PanelSaveCredentials(t, user, password)
         \/ \E password \in Passwords : UpdateRegtechPassword(t, password)
         \/ InitializeRegtech(t) \/ MigrateExistingCredentials(t) \/ TestConnection(t)
         \/ \E s \in Sources : TestCredentials(t, s)
  PROVE  CredInv'
<1>0. t \in Threads /\ version \in [Sources -> Nat] /\ "REGTECH" \in Sources
  BY CredentialsAssumption DEF Threads, CredInv, RowsInv
<1>1. ASSUME NEW r, Call(t, r), Sight(r, row, version, appKey) PROVE CredInv'
  BY <1>0, <1>1, MovesOn DEF Call
<1>2. ASSUME NEW x PROVE Sight(Answered(x), row, version, appKey)
  <2>1. Fresh(Answered(x)) /\ Answered(x).pc = "free"
    BY FreshAnswer
  <2>2. QED
    BY <1>0, <2>1, FreshSight
<1>3. ASSUME NEW op, NEW v, v.source \in Sources, v.given = TRUE
      PROVE  Sight(Saving(op, <<v>>), row, version, appKey)
  BY <1>0, <1>3, GivenSight
<1>4. ASSUME NEW op \in {"put", "password", "initialize"}, NEW f, f.source \in Sources
      PROVE  Sight([Nothing EXCEPT !.pc = "current", !.op = op, !.form = f], row, version, appKey)
  <2> DEFINE r == [Nothing EXCEPT !.pc = "current", !.op = op, !.form = f]
  <2>1. Fresh(r) /\ r.pc = "current" /\ r.form = f /\ r.op = op
    BY DEF Fresh, IsCall, CallFields, Nothing
  <2> HIDE DEF r
  <2>2. Sight(r, row, version, appKey)
    BY <1>0, <1>4, <2>1, FreshSight
  <2>3. QED
    BY <2>2 DEF r
<1>5. ASSUME NEW p \in {"scan", "phase1", "probe"}, NEW op, NEW f
      PROVE  /\ Sight([Nothing EXCEPT !.pc = p, !.op = op, !.form = f], row, version, appKey)
             /\ Sight([Nothing EXCEPT !.pc = p, !.op = op], row, version, appKey)
  <2> DEFINE r == [Nothing EXCEPT !.pc = p, !.op = op, !.form = f]
             q == [Nothing EXCEPT !.pc = p, !.op = op]
  <2>1. Fresh(r) /\ r.pc = p /\ Fresh(q) /\ q.pc = p
    BY DEF Fresh, IsCall, CallFields, Nothing
  <2> HIDE DEF r, q
  <2>2. Sight(r, row, version, appKey) /\ Sight(q, row, version, appKey)
    BY <1>0, <2>1, FreshSight
  <2>3. QED
    BY <2>2 DEF r, q
<1>6. ASSUME NEW f \in Forms, ManageCredentials(t, f) PROVE CredInv'
  <2> DEFINE user == IF f.source = "CLOUDFLARE" /\ f.user = "" THEN "cloudflare-api" ELSE f.user
             v == Save(f.source, user, f.password, f.config, f.enabled, TRUE)
             g == [f EXCEPT !.user = user]
  <2>1. f.source \in Sources /\ g.source = f.source
    BY CredentialsAssumption
  <2>2. v.source = f.source /\ v.given = TRUE
    BY DEF Save
  <2>3. \/ Call(t, Answered(400))
        \/ Call(t, Saving("put", <<v>>))
        \/ Call(t, [Nothing EXCEPT !.pc = "current", !.op = "put", !.form = g])
    BY <1>6 DEF ManageCredentials
  <2> HIDE DEF v, g
  <2>4. QED
    BY <1>1, <1>2, <1>3, <1>4, <2>1, <2>2, <2>3
<1>7. ASSUME NEW user, NEW password,
             \/ SetRegtechCredentials(t, user, password)
             \/ ApiSaveCredentials(t, user, password)
             \/ PanelSaveCredentials(t, user, password)
      PROVE  CredInv'
  <2> DEFINE v == Save("REGTECH", user, password, "none", TRUE, TRUE)
  <2>1. v.source = "REGTECH" /\ v.given = TRUE
    BY DEF Save
  <2>2. \/ \E x : Call(t, Answered(x))
        \/ \E op : Call(t, Saving(op, <<v>>))
    BY <1>7 DEF SetRegtechCredentials, ApiSaveCredentials, PanelSaveCredentials
  <2> HIDE DEF v
  <2>3. QED
    BY <1>0, <1>1, <1>2, <1>3, <2>1, <2>2
<1>8. ASSUME NEW password, UpdateRegtechPassword(t, password) PROVE CredInv'
  <2> DEFINE g == [source |-> "REGTECH", password |-> password]
  <2>1. \/ Call(t, Answered(400))
        \/ Call(t, [Nothing EXCEPT !.pc = "current", !.op = "password", !.form = g])
    BY <1>8 DEF UpdateRegtechPassword
  <2>2. g.source \in Sources
    BY <1>0
  <2> HIDE DEF g
  <2>3. QED
    BY <1>1, <1>2, <1>4, <2>1, <2>2
<1>9. ASSUME InitializeRegtech(t) PROVE CredInv'
  <2> DEFINE g == [source |-> "REGTECH"]
  <2>1. Call(t, [Nothing EXCEPT !.pc = "current", !.op = "initialize", !.form = g])
    BY <1>9 DEF InitializeRegtech
  <2>2. g.source \in Sources
    BY <1>0
  <2> HIDE DEF g
  <2>3. QED
    BY <1>1, <1>4, <2>1, <2>2
<1>10. ASSUME MigrateExistingCredentials(t) \/ TestConnection(t) PROVE CredInv'
  BY <1>1, <1>5, <1>10 DEF MigrateExistingCredentials, TestConnection
<1>11. ASSUME NEW s, TestCredentials(t, s) PROVE CredInv'
  BY <1>1, <1>5, <1>11 DEF TestCredentials
<1>12. QED
  BY <1>6, <1>7, <1>8, <1>9, <1>10, <1>11

(* A row is switched off or on: nothing that is read or kept changes. *)
LEMMA SwitchKeeps ==
  ASSUME CredInv, NEW t \in Http, NEW s \in Sources, NEW active \in BOOLEAN, SetActive(t, s, active)
  PROVE  CredInv'
<1>0. t \in Threads /\ version \in [Sources -> Nat] /\ row = [x \in Sources |-> row[x]]
  BY DEF Threads, CredInv, RowsInv
<1>1. PICK x : call' = [call EXCEPT ![t] = Answered(x)]
  BY DEF SetActive
<1>2. UNCHANGED <<appKey, latest, version, overtaken>>
  BY DEF SetActive, history
<1>3. ASSUME NEW rows, NEW versions \in [Sources -> Nat], NEW key
      PROVE  Sight(Answered(x), rows, versions, key)
  <2>1. Fresh(Answered(x)) /\ Answered(x).pc = "free"
    BY FreshAnswer
  <2>2. QED
    BY <2>1, FreshSight
<1>4. CASE row' = row
  BY <1>0, <1>1, <1>2, <1>3, <1>4, MovesOn DEF history
<1>5. CASE row[s] # Absent /\ row' = [row EXCEPT ![s].active = active]
  <2>1. Sound(row[s], latest[s], overtaken[s])
    BY <1>5 DEF CredInv, RowsInv
  <2>2. IsRow(row[s])
    BY <2>1 DEF Sound
  <2>3. \A u \in Threads : Sight(call[u], row', version, appKey)
    BY <1>0, <1>5, <2>2, SightOfSwitch DEF CredInv, CallsInv
  <2>4. Sight(Answered(x), row', version, appKey)
    BY <1>0, <1>3
  <2>5. CallsInv'
    BY <1>1, <1>2, <2>3, <2>4 DEF CredInv, CallsInv
  <2>6. Sound([row[s] EXCEPT !.active = active], latest[s], overtaken[s])
    BY <2>1 DEF Sound, IsRow
  <2>7. /\ row' = [y \in Sources |-> row'[y]]
        /\ row'[s] = [row[s] EXCEPT !.active = active]
        /\ \A y \in Sources \ {s} : row'[y] = row[y]
    BY <1>0, <1>5
  <2>8. \A y \in Sources : row'[y] # Absent => Sound(row'[y], latest[y], overtaken[y])
    BY <2>6, <2>7 DEF CredInv, RowsInv
  <2>9. RowsInv'
    BY <1>2, <2>7, <2>8 DEF CredInv, RowsInv
  <2>10. QED
    BY <2>5, <2>9 DEF CredInv
<1>6. QED
  BY <1>4, <1>5 DEF SetActive

(* What the app reads of a row is the row's password, and it has the key. *)
LEMMA ReadByApp ==
  ASSUME CredInv, NEW s \in Sources, GetCredentials(s) # Absent
  PROVE  /\ row[s] # Absent /\ IsRow(row[s])
         /\ GetCredentials(s).password = row[s].payload.password
         /\ row[s].payload.key \in {None, appKey}
<1>1. row[s] # Absent /\ row[s].active
  BY DEF GetCredentials
<1>2. Sound(row[s], latest[s], overtaken[s])
  BY <1>1 DEF CredInv, RowsInv
<1>3. CASE row[s].encrypted
  BY <1>1, <1>2, <1>3 DEF GetCredentials, Sound
<1>4. CASE ~row[s].encrypted
  BY <1>1, <1>2, <1>4 DEF GetCredentials, Sound
<1>5. QED
  BY <1>1, <1>2, <1>3, <1>4 DEF Sound

(* A thread that has just read everything: its view is the current one. *)
LEMMA NowSeen ==
  ASSUME CredInv, NEW r, IsCall(r), r.seen = version,
         r.pc = "save" =>
             /\ r.saves # <<>>
             /\ \E S : r.saves \in Seq(S) /\ \A v \in S : Due(r, v, row, version),
         r.pc \notin {"current", "update"},
         r.pc = "select" => /\ r.form.source \in Sources
                            /\ IsRow(row[r.form.source])
                            /\ row[r.form.source].payload.key \in {None, appKey}
  PROVE  Sight(r, row, version, appKey)
<1>1. \A s \in Sources : r.seen[s] \in Nat /\ r.seen[s] <= version[s]
  BY DEF CredInv, RowsInv
<1>2. QED
  BY <1>1 DEF Sight

LEMMA CurrentKeeps ==
  ASSUME CredInv, NEW t \in Threads, ReadCurrent(t)
  PROVE  CredInv'
<1>0. Sight(call[t], row, version, appKey) /\ version \in [Sources -> Nat]
  BY DEF CredInv, CallsInv, RowsInv
<1>1. call[t].pc = "current" /\ UNCHANGED <<row, appKey, history>>
  BY DEF ReadCurrent, Same
<1> DEFINE of == call[t].form.source
           r == [call[t] EXCEPT !.seen = version]
<1>2. of \in Sources /\ r.form = call[t].form /\ r.op = call[t].op /\ r.op \in {"put", "password", "initialize"}
  BY <1>0, <1>1 DEF Sight, IsCall, CallFields
<1>3. IsCall(r) /\ r.seen = version
  BY <1>0 DEF Sight, IsCall, CallFields
<1>4. ASSUME NEW q, Goes(t, q), Sight(q, row, version, appKey) PROVE CredInv'
  BY <1>1, <1>4, MovesOn DEF Goes
<1>5. ASSUME NEW x PROVE Sight(Answered(x), row, version, appKey)
  <2>1. Fresh(Answered(x)) /\ Answered(x).pc = "free"
    BY FreshAnswer
  <2>2. QED
    BY <1>0, <2>1, FreshSight
<1>6. ASSUME NEW v, Due(r, v, row, version)
      PROVE  Sight([r EXCEPT !.pc = "save", !.saves = <<v>>], row, version, appKey)
  <2> DEFINE q == [r EXCEPT !.pc = "save", !.saves = <<v>>]
             S == {v}
  <2>1. /\ IsCall(q) /\ q.pc = "save" /\ q.saves = <<v>> /\ q.seen = r.seen /\ q.op = r.op
    BY <1>3 DEF IsCall, CallFields
  <2>2. Due(q, v, row, version)
    BY <1>6, <2>1 DEF Due
  <2> HIDE DEF q, r
  <2>3. q.saves \in Seq(S) /\ q.saves # <<>> /\ \A w \in S : Due(q, w, row, version)
    BY <2>1, <2>2
  <2> HIDE DEF S
  <2>4. Sight(q, row, version, appKey)
    BY <1>3, <2>1, <2>3, NowSeen
  <2>5. QED
    BY <2>4 DEF q
<1>7. PICK ok \in BOOLEAN :
        LET c == IF ok THEN GetCredentials(r.form.source) ELSE Absent
            saves == CASE r.op = "put"        -> <<Save(r.form.source, r.form.user, c.password, r.form.config,
                                                        r.form.enabled, FALSE)>>
                       [] r.op = "password"   -> <<Save("REGTECH", c.user, r.form.password, "none", TRUE, TRUE)>>
                       [] r.op = "initialize" -> <<Save("REGTECH", EnvPair.user, EnvPair.password, "none",
                                                        TRUE, TRUE)>>
        IN  Goes(t, IF r.op = "initialize"
                    THEN IF Complete(c) THEN Saved(r)
                         ELSE IF EnvPair = None THEN Answered(500)
                         ELSE [r EXCEPT !.pc = "save", !.saves = saves]
                    ELSE IF c = Absent THEN Answered(IF r.op = "put" THEN 404 ELSE 500)
                    ELSE IF r.op = "put" /\ r.form.source # "CLOUDFLARE" THEN [r EXCEPT !.pc = "select"]
                    ELSE [r EXCEPT !.pc = "save", !.saves = saves])
  BY DEF ReadCurrent
<1> DEFINE c == IF ok THEN GetCredentials(r.form.source) ELSE Absent
           kept == Save(r.form.source, r.form.user, c.password, r.form.config, r.form.enabled, FALSE)
           typed == Save("REGTECH", c.user, r.form.password, "none", TRUE, TRUE)
           env == Save("REGTECH", EnvPair.user, EnvPair.password, "none", TRUE, TRUE)
<1>8. Due(r, typed, row, version) /\ Due(r, env, row, version)
  BY CredentialsAssumption DEF Due, Save
<1>9. c # Absent => Due(r, kept, row, version)
  <2>1. /\ kept.source = r.form.source /\ kept.given = FALSE /\ kept.password = c.password
    BY DEF Save
  <2>2. c # Absent => /\ IsRow(row[r.form.source])
                      /\ c.password = row[r.form.source].payload.password
    BY <1>2, ReadByApp
  <2> HIDE DEF r, kept, c
  <2>3. QED
    BY <1>2, <2>1, <2>2 DEF Due
<1>10. c # Absent => Sight([r EXCEPT !.pc = "select"], row, version, appKey)
  <2> DEFINE q == [r EXCEPT !.pc = "select"]
  <2>1. IsCall(q) /\ q.pc = "select" /\ q.seen = version /\ q.form = r.form
    BY <1>3 DEF IsCall, CallFields
  <2>2. c # Absent => IsRow(row[r.form.source]) /\ row[r.form.source].payload.key \in {None, appKey}
    BY <1>2, ReadByApp
  <2> HIDE DEF q, r, c
  <2>3. c # Absent => Sight(q, row, version, appKey)
    BY <1>2, <2>1, <2>2, NowSeen
  <2>4. QED
    BY <2>3 DEF q
<1>11. CASE r.op = "initialize"
  <2>1. Goes(t, Saved(r)) \/ Goes(t, Answered(500)) \/ Goes(t, [r EXCEPT !.pc = "save", !.saves = <<env>>])
    BY <1>7, <1>11
  <2>2. Sight(Saved(r), row, version, appKey)
    BY <1>0, SavedSight
  <2> HIDE DEF r, env
  <2>3. QED
    BY <1>4, <1>5, <1>6, <1>8, <2>1, <2>2
<1>12. CASE r.op = "put"
  <2>1. \/ \E x : Goes(t, Answered(x))
        \/ c # Absent /\ Goes(t, [r EXCEPT !.pc = "select"])
        \/ c # Absent /\ Goes(t, [r EXCEPT !.pc = "save", !.saves = <<kept>>])
    BY <1>7, <1>12
  <2> HIDE DEF r, kept, c
  <2>2. QED
    BY <1>4, <1>5, <1>6, <1>9, <1>10, <2>1
<1>13. CASE r.op = "password"
  <2>1. \/ \E x : Goes(t, Answered(x))
        \/ Goes(t, [r EXCEPT !.pc = "save", !.saves = <<typed>>])
    BY <1>7, <1>13
  <2> HIDE DEF r, typed
  <2>2. QED
    BY <1>4, <1>5, <1>6, <1>8, <2>1
<1>14. QED
  BY <1>2, <1>11, <1>12, <1>13

(* The seed, at the start of the app. *)
LEMMA SeedKeeps ==
  ASSUME CredInv, NEW t \in Threads, SeedRegtechCredentials(t)
  PROVE  CredInv'
<1>0. version \in [Sources -> Nat] /\ UNCHANGED <<row, appKey, history>>
  BY DEF CredInv, RowsInv, SeedRegtechCredentials, Same
<1> DEFINE v == Save("REGTECH", EnvPair.user, EnvPair.password, "none", TRUE, FALSE)
           r == [Nothing EXCEPT !.pc = "save", !.op = "seed", !.seen = version, !.saves = <<v>>]
           S == {v}
           it == row["REGTECH"]
<1>1. \/ Goes(t, Nothing)
      \/ Goes(t, r) /\ ~(it # Absent /\ it.user # "" /\ it.payload.password # "")
  BY DEF SeedRegtechCredentials
<1>2. CASE Goes(t, Nothing)
  <2>1. Sight(Nothing, row, version, appKey)
    BY <1>0, NothingIsCall, QuietSight
  <2>2. QED
    BY <1>0, <1>2, <2>1, MovesOn DEF Goes
<1>3. CASE Goes(t, r) /\ ~(it # Absent /\ it.user # "" /\ it.payload.password # "")
  <2>1. IsCall(r) /\ r.pc = "save" /\ r.op = "seed" /\ r.seen = version /\ r.saves = <<v>>
    BY DEF IsCall, CallFields, Nothing
  <2>2. Lacking(row["REGTECH"])
    BY <1>3 DEF Lacking
  <2>3. v.source = "REGTECH" /\ v.given = FALSE /\ "REGTECH" \in Sources
    BY CredentialsAssumption DEF Save
  <2> HIDE DEF r, v, it
  <2>4. Due(r, v, row, version)
    BY <2>1, <2>2, <2>3 DEF Due
  <2>5. r.saves \in Seq(S) /\ r.saves # <<>> /\ \A w \in S : Due(r, w, row, version)
    BY <2>1, <2>4
  <2> HIDE DEF S
  <2>6. Sight(r, row, version, appKey)
    BY <2>1, <2>5, NowSeen
  <2>7. QED
    BY <1>0, <1>3, <2>6, MovesOn DEF Goes
<1>4. QED
  BY <1>1, <1>2, <1>3

(* The plain rows, in any order: each with the password it holds. *)
LEMMA ScanKeeps ==
  ASSUME CredInv, NEW t \in Threads, ScanPlainRows(t)
  PROVE  CredInv'
<1>0. /\ version \in [Sources -> Nat] /\ UNCHANGED <<row, appKey, history>>
      /\ Sight(call[t], row, version, appKey)
  BY DEF CredInv, RowsInv, CallsInv, ScanPlainRows, Same
<1> DEFINE plain == {s \in StoredCredentials : ~row[s].encrypted /\ row[s].payload.password # ""}
           save == [s \in plain |-> Save(s, row[s].user, row[s].payload.password, row[s].config, TRUE, FALSE)]
           saves == {Save(s, row[s].user, row[s].payload.password, row[s].config, TRUE, FALSE) : s \in plain}
<1>1. PICK list \in SetToSeqs(saves) :
         Goes(t, IF list = <<>> THEN Answered(200)
                 ELSE [call[t] EXCEPT !.pc = "save", !.saves = list, !.seen = version])
  BY DEF ScanPlainRows
<1>2. Cardinality(saves) \in Nat
  <2>1. IsFiniteSet(plain)
    <3>1. plain \in SUBSET Sources
      BY DEF StoredCredentials
    <3>2. QED
      BY <3>1, CredentialsAssumption, FS_Subset
  <2>2. save \in Surjection(plain, saves)
    BY DEF Surjection
  <2>3. IsFiniteSet(saves)
    BY <2>1, <2>2, FS_Surjection
  <2>4. QED
    BY <2>3, FS_CardinalityType
<1>3. list \in Seq(saves)
  <2> HIDE DEF saves
  <2>1. list \in [1 .. Cardinality(saves) -> saves]
    BY <1>1 DEF SetToSeqs
  <2>2. QED
    BY <1>2, <2>1
<1> DEFINE r == [call[t] EXCEPT !.pc = "save", !.saves = list, !.seen = version]
<1>4. IsCall(r) /\ r.pc = "save" /\ r.saves = list /\ r.seen = version
  BY <1>0 DEF Sight, IsCall, CallFields
<1>5. \A v \in saves : Due(r, v, row, version)
  <2> SUFFICES ASSUME NEW s \in plain
               PROVE  Due(r, Save(s, row[s].user, row[s].payload.password, row[s].config, TRUE, FALSE),
                          row, version)
    OBVIOUS
  <2>1. s \in Sources /\ row[s] # Absent
    BY DEF StoredCredentials
  <2>2. IsRow(row[s])
    BY <2>1 DEF CredInv, RowsInv, Sound
  <2> HIDE DEF r
  <2>3. QED
    BY <2>1, <2>2 DEF Due, Save
<1> HIDE DEF r, saves
<1>6. CASE list = <<>>
  <2>1. Fresh(Answered(200)) /\ Answered(200).pc = "free"
    BY FreshAnswer
  <2>2. Sight(Answered(200), row, version, appKey)
    BY <1>0, <2>1, FreshSight
  <2>3. QED
    BY <1>0, <1>1, <1>6, <2>2, MovesOn DEF Goes
<1>7. CASE list # <<>>
  <2>1. Sight(r, row, version, appKey)
    BY <1>3, <1>4, <1>5, <1>7, NowSeen
  <2>2. Goes(t, r)
    BY <1>1, <1>7 DEF r
  <2>3. QED
    BY <1>0, <2>1, <2>2, MovesOn DEF Goes
<1>8. QED
  BY <1>6, <1>7

LEMMA MoreToCome ==
  ASSUME NEW S, NEW q \in Seq(S), Len(q) > 1
  PROVE  Tail(q) # <<>>
<1> DEFINE n == Len(q)
<1>1. n \in Nat /\ n > 1 /\ Len(Tail(q)) = n - 1
  OBVIOUS
<1> HIDE DEF n
<1>2. n - 1 # 0
  BY <1>1
<1>3. Len(Tail(q)) # 0
  BY <1>1, <1>2
<1>4. SUFFICES ASSUME Tail(q) = <<>> PROVE FALSE
  OBVIOUS
<1>5. Len(<<>>) = 0
  OBVIOUS
<1>6. QED
  BY <1>3, <1>4, <1>5

(* One row of a request is saved, or is not; the rest follows. *)
LEMMA SaveKeeps ==
  ASSUME CredInv, NEW t \in Threads, SaveCredentials(t)
  PROVE  CredInv'
<1>0. /\ version \in [Sources -> Nat] /\ UNCHANGED <<appKey, colKey>> /\ appKey \in MasterKeys
      /\ Sight(call[t], row, version, appKey) /\ call[t].pc = "save"
      /\ overtaken \in [Sources -> BOOLEAN] /\ latest = [s \in Sources |-> latest[s]]
  BY DEF CredInv, RowsInv, CallsInv, SaveCredentials
<1> DEFINE s == Head(call[t].saves)
           r == call[t]
           rest == [r EXCEPT !.saves = Tail(@), !.pc = IF Len(r.saves) > 1 THEN "save" ELSE "saved"]
           after(q) == IF q.pc = "saved" THEN Saved(q) ELSE q
           failed == [rest EXCEPT !.failed = @ + 1]
           incomplete == Lacking(row[s.source])
           given == s.given \/ (r.op = "seed" /\ incomplete)
           n == [user |-> s.user, payload |-> Sealed(s.user, s.password), encrypted |-> TRUE,
                 active |-> TRUE, enabled |-> s.enabled, config |-> s.config]
<1>1. PICK S : r.saves \in Seq(S) /\ \A v \in S : Due(r, v, row, version)
  BY <1>0 DEF Sight
<1>2. r.saves # <<>> /\ Tail(r.saves) \in Seq(S) /\ s \in S
  BY <1>0, <1>1 DEF Sight
<1>3. Len(r.saves) > 1 => Tail(r.saves) # <<>>
  BY <1>1, MoreToCome
<1>4. /\ IsCall(rest) /\ rest.saves = Tail(r.saves) /\ rest.seen = r.seen /\ rest.op = r.op
      /\ rest.pc = IF Len(r.saves) > 1 THEN "save" ELSE "saved"
  BY <1>0 DEF Sight, IsCall, CallFields
<1>5. /\ IsCall(failed) /\ failed.saves = rest.saves /\ failed.seen = r.seen /\ failed.op = r.op
      /\ failed.pc = rest.pc
  BY <1>4 DEF IsCall, CallFields
<1>6. ASSUME NEW q, IsCall(q), q.saves = Tail(r.saves), q.seen = r.seen, q.op = r.op,
             q.pc = IF Len(r.saves) > 1 THEN "save" ELSE "saved"
      PROVE  Sight(after(q), row, version, appKey)
  <2>1. CASE Len(r.saves) > 1
    <3>1. after(q) = q /\ q.pc = "save" /\ q.saves # <<>>
      BY <1>3, <1>6, <2>1
    <3>2. \A v \in S : Due(q, v, row, version)
      BY <1>1, <1>6 DEF Due
    <3>3. q.saves \in Seq(S)
      BY <1>2, <1>6
    <3>4. \A x \in Sources : q.seen[x] \in Nat /\ q.seen[x] <= version[x]
      BY <1>0, <1>6 DEF Sight
    <3>5. Sight(q, row, version, appKey)
      BY <1>6, <3>1, <3>2, <3>3, <3>4 DEF Sight
    <3>6. QED
      BY <3>1, <3>5
  <2>2. CASE ~(Len(r.saves) > 1)
    <3>1. after(q) = Saved(q)
      BY <1>6, <2>2
    <3>2. QED
      BY <1>0, <3>1, SavedSight
  <2>3. QED
    BY <2>1, <2>2
<1>7. Sight(after(rest), row, version, appKey) /\ Sight(after(failed), row, version, appKey)
  BY <1>4, <1>5, <1>6
<1>8. /\ s.source \in Sources /\ s.given \in BOOLEAN
      /\ ~s.given /\ r.seen[s.source] = version[s.source] =>
             \/ r.op = "seed" /\ incomplete
             \/ IsRow(row[s.source]) /\ s.password = row[s.source].payload.password
  BY <1>1, <1>2 DEF Due
<1>9. \/ /\ row' = [row EXCEPT ![s.source] = n]
         /\ Writes(t, s.source, given, s.password)
         /\ Goes(t, after(rest))
      \/ /\ Goes(t, after(failed))
         /\ UNCHANGED <<row, history>>
  BY Zenon DEF SaveCredentials, Lacking
<1> HIDE DEF rest, failed, after, s, n, incomplete
<1>10. CASE Goes(t, after(failed)) /\ UNCHANGED <<row, history>>
  BY <1>0, <1>7, <1>10, MovesOn DEF Goes
<1>11. CASE /\ row' = [row EXCEPT ![s.source] = n]
            /\ Writes(t, s.source, given, s.password)
            /\ Goes(t, after(rest))
  <2> DEFINE src == s.source
  <2>1. /\ version' = [version EXCEPT ![src] = @ + 1]
        /\ latest' = IF given THEN [latest EXCEPT ![src] = s.password] ELSE latest
        /\ overtaken' = [overtaken EXCEPT ![src] = ~given /\ (@ \/ r.seen[src] # version[src])]
    BY <1>11 DEF Writes
  <2>2. /\ latest' = [x \in Sources |-> latest'[x]] /\ overtaken' \in [Sources -> BOOLEAN]
        /\ \A x \in Sources \ {src} : latest'[x] = latest[x] /\ overtaken'[x] = overtaken[x]
    BY <1>0, <1>8, <2>1
  <2>3. /\ IsRow(n) /\ n.encrypted = TRUE /\ n.payload.key = appKey /\ n.payload.user = n.user
        /\ n.payload.password = s.password
    BY DEF n, IsRow, Sealed
  <2>4. appKey # None
    BY <1>0, CredentialsAssumption
  <2>5. ~overtaken'[src] => latest'[src] = s.password
    <3>1. CASE given
      BY <1>0, <1>8, <2>1, <3>1
    <3>2. CASE ~given
      <4>1. SUFFICES ASSUME ~overtaken'[src] PROVE latest[src] = s.password
        BY <2>1, <3>2
      <4>2. ~overtaken[src] /\ r.seen[src] = version[src]
        BY <1>0, <1>8, <2>1, <3>2, <4>1
      <4>3. ~(r.op = "seed" /\ incomplete) /\ ~s.given
        BY <3>2
      <4>4. IsRow(row[src]) /\ s.password = row[src].payload.password
        BY <1>8, <4>2, <4>3
      <4>5. Sound(row[src], latest[src], overtaken[src])
        BY <1>8, <4>4, RowIsThere DEF CredInv, RowsInv
      <4>6. QED
        BY <4>2, <4>4, <4>5 DEF Sound
    <3>3. QED
      BY <3>1, <3>2
  <2>6. Sound(n, latest'[src], overtaken'[src])
    BY <2>3, <2>4, <2>5 DEF Sound
  <2>7. call' = [call EXCEPT ![t] = after(rest)]
    BY <1>11 DEF Goes
  <2>8. n.payload.key \in {None, appKey} /\ (row[src] # Absent /\ row[src].encrypted => n.encrypted)
    BY <2>3
  <2>9. row' = [row EXCEPT ![src] = n] /\ src \in Sources /\ appKey' = appKey
    BY <1>0, <1>8, <1>11
  <2> HIDE DEF src
  <2>10. QED
    BY <1>7, <2>1, <2>2, <2>6, <2>7, <2>8, <2>9, WritesRow
<1>12. QED
  BY <1>9, <1>10, <1>11

(* A payload is read: it can be opened, and is the row's. *)
LEMMA SelectKeeps ==
  ASSUME CredInv, NEW t \in Threads, SelectPayload(t)
  PROVE  CredInv'
<1> DEFINE s == call[t].form.source
           r == [call[t] EXCEPT !.pc = "update", !.seen = version,
                                !.payload = [body |-> row[s].payload, encrypted |-> row[s].encrypted]]
<1>0. /\ version \in [Sources -> Nat] /\ UNCHANGED <<row, appKey, history>>
      /\ Sight(call[t], row, version, appKey) /\ call[t].pc = "select"
  BY DEF CredInv, RowsInv, CallsInv, SelectPayload, Same
<1>1. Goes(t, Answered(500)) \/ (row[s] # Absent /\ Goes(t, r))
  BY DEF SelectPayload
<1>2. CASE Goes(t, Answered(500))
  <2>1. Fresh(Answered(500)) /\ Answered(500).pc = "free"
    BY FreshAnswer
  <2>2. Sight(Answered(500), row, version, appKey)
    BY <1>0, <2>1, FreshSight
  <2>3. QED
    BY <1>0, <1>2, <2>2, MovesOn DEF Goes
<1>3. CASE row[s] # Absent /\ Goes(t, r)
  <2>1. s \in Sources /\ IsRow(row[s]) /\ row[s].payload.key \in {None, appKey}
    BY <1>0 DEF Sight
  <2>2. /\ IsCall(r) /\ r.pc = "update" /\ r.seen = version /\ r.form = call[t].form
        /\ r.payload.body = row[s].payload /\ r.payload.encrypted = row[s].encrypted
    BY <1>0 DEF Sight, IsCall, CallFields
  <2>3. Sound(row[s], latest[s], overtaken[s])
    BY <1>3, <2>1 DEF CredInv, RowsInv
  <2>4. \A x \in Sources : r.seen[x] \in Nat /\ r.seen[x] <= version[x]
    BY <1>0, <2>2
  <2> HIDE DEF r
  <2>5. AsRead(r, row, version, appKey)
    <3>1. row[s].payload.key # None => row[s].encrypted
      BY <2>3 DEF Sound
    <3>2. row[s].payload = [f \in {"key", "user", "password"} |-> row[s].payload[f]]
      BY <2>1 DEF IsRow
    <3>3. QED
      BY <2>1, <2>2, <3>1, <3>2 DEF AsRead
  <2>6. Sight(r, row, version, appKey)
    BY <2>1, <2>2, <2>4, <2>5 DEF Sight
  <2>7. QED
    BY <1>0, <1>3, <2>6, MovesOn DEF Goes
<1>4. QED
  BY <1>1, <1>2, <1>3

(* ... and written back, with the name of the request in the row and in what *)
(* is sealed, and the password that was read.                                *)
LEMMA UpdateKeeps ==
  ASSUME CredInv, NEW t \in Threads, UpdateCredentialSettings(t)
  PROVE  CredInv'
<1> DEFINE f == call[t].form
           s == f.source
           read == call[t].payload
           new == Renamed(read, f.user)
           n == [row[s] EXCEPT !.user = f.user, !.enabled = f.enabled, !.active = TRUE, !.payload = new]
<1>0. /\ version \in [Sources -> Nat] /\ appKey' = appKey
      /\ row = [x \in Sources |-> row[x]]
      /\ Sight(call[t], row, version, appKey) /\ call[t].pc = "update"
      /\ overtaken \in [Sources -> BOOLEAN] /\ latest = [x \in Sources |-> latest[x]]
  BY DEF CredInv, RowsInv, CallsInv, UpdateCredentialSettings
<1>1. ASSUME NEW x, NEW rows, NEW versions \in [Sources -> Nat], NEW key
      PROVE  Sight(Answered(x), rows, versions, key)
  <2>1. Fresh(Answered(x)) /\ Answered(x).pc = "free"
    BY FreshAnswer
  <2>2. QED
    BY <2>1, FreshSight
<1>2. \/ /\ row' = [row EXCEPT ![s] = n]
         /\ Writes(t, s, FALSE, "")
         /\ Goes(t, Answered(200))
      \/ /\ Goes(t, Answered(500))
         /\ UNCHANGED <<row, history>>
  BY DEF UpdateCredentialSettings
<1>3. CASE Goes(t, Answered(500)) /\ UNCHANGED <<row, history>>
  BY <1>0, <1>1, <1>3, MovesOn DEF Goes
<1>4. CASE /\ row' = [row EXCEPT ![s] = n]
           /\ Writes(t, s, FALSE, "")
           /\ Goes(t, Answered(200))
  <2>1. s \in Sources /\ IsRow(row[s]) /\ row[s].payload.key \in {None, appKey}
    BY <1>0 DEF Sight
  <2>2. Sound(row[s], latest[s], overtaken[s])
    BY <2>1, RowIsThere DEF CredInv, RowsInv
  <2>3. /\ read.body = [g \in {"key", "user", "password"} |-> read.body[g]]
        /\ read.body.key \in {None, appKey}
        /\ read.body.key # None => read.encrypted /\ row[s].encrypted
        /\ call[t].seen[s] = version[s] => read.body = row[s].payload
    BY <1>0 DEF Sight, AsRead
  <2>4. /\ new = [g \in {"key", "user", "password"} |-> new[g]]
        /\ new.key = read.body.key /\ new.password = read.body.password
        /\ new.key # None => new.user = f.user
    <3>1. CASE read.encrypted /\ read.body.key = appKey
      BY <2>3, <3>1 DEF Renamed
    <3>2. CASE ~(read.encrypted /\ read.body.key = appKey)
      BY <2>3, <3>2 DEF Renamed
    <3>3. QED
      BY <3>1, <3>2
  <2> HIDE DEF new
  <2>5. /\ IsRow(n) /\ n.user = f.user /\ n.payload = new /\ n.encrypted = row[s].encrypted
    BY <2>1, <2>4 DEF IsRow
  <2> HIDE DEF n
  <2>6. /\ version' = [version EXCEPT ![s] = @ + 1]
        /\ latest' = latest
        /\ overtaken' = [overtaken EXCEPT ![s] = @ \/ call[t].seen[s] # version[s]]
    BY <1>4 DEF Writes
  <2>7. /\ latest' = [x \in Sources |-> latest'[x]] /\ overtaken' \in [Sources -> BOOLEAN]
        /\ \A x \in Sources \ {s} : latest'[x] = latest[x] /\ overtaken'[x] = overtaken[x]
    BY <1>0, <2>1, <2>6
  <2>8. ~overtaken'[s] => ~overtaken[s] /\ call[t].seen[s] = version[s]
    BY <1>0, <2>1, <2>6
  <2>9. Sound(n, latest'[s], overtaken'[s])
    BY <2>2, <2>3, <2>4, <2>5, <2>6, <2>8 DEF Sound
  <2>10. n.payload.key \in {None, appKey} /\ (row[s] # Absent /\ row[s].encrypted => n.encrypted)
    BY <2>3, <2>4, <2>5
  <2>11. Sight(Answered(200), row, version, appKey)
    BY <1>0, <1>1
  <2>12. call' = [call EXCEPT ![t] = Answered(200)] /\ row' = [row EXCEPT ![s] = n]
    BY <1>4 DEF Goes
  <2> HIDE DEF s
  <2>13. QED
    BY <1>0, <2>1, <2>6, <2>7, <2>9, <2>10, <2>11, <2>12, WritesRow
<1>5. QED
  BY <1>2, <1>3, <1>4

(* A test of a connection writes nothing. *)
LEMMA TestKeeps ==
  ASSUME CredInv, NEW t \in Threads,
         CredentialPhase(t) \/ HealthPhase(t) \/ AuthenticationPhase(t) \/ ProbeConnection(t)
  PROVE  CredInv'
<1> DEFINE r == call[t]
<1>0. /\ version \in [Sources -> Nat] /\ UNCHANGED <<row, appKey, history>>
      /\ Sight(r, row, version, appKey)
  BY DEF CredInv, RowsInv, CallsInv, CredentialPhase, HealthPhase, AuthenticationPhase, ProbeConnection, Same
<1>1. IsCall(r)
  BY <1>0 DEF Sight
<1>2. ASSUME NEW q, Goes(t, q), IsCall(q), q.seen = r.seen \/ Fresh(q),
             q.pc \in {"free", "phase2", "phase3"}
      PROVE  CredInv'
  <2>1. \A s \in Sources : q.seen[s] \in Nat /\ q.seen[s] <= version[s]
    BY <1>0, <1>2 DEF Sight, Fresh
  <2>2. Sight(q, row, version, appKey)
    BY <1>2, <2>1, QuietSight
  <2>3. QED
    BY <1>0, <1>2, <2>2, MovesOn DEF Goes
<1>3. ASSUME NEW q, IsCall(q), q.seen = r.seen, NEW code, Goes(t, FormatTestResult(q, code))
      PROVE  CredInv'
  <2> DEFINE x == FormatTestResult(q, code)
  <2>1. IsCall(x) /\ x.seen = r.seen /\ x.pc = "free"
    <3> DEFINE b == (code = "SUCCESS")
               a == CASE q.op # "test" -> 200
                      [] code = "SUCCESS" -> 200
                      [] code = "NO_CREDENTIALS" -> 404
                      [] code = "COLLECTOR_UNAVAILABLE" -> 503
                      [] OTHER -> 400
    <3>1. x = [q EXCEPT !.pc = "free", !.op = None, !.code = code, !.collect = b, !.answer = a]
      BY DEF FormatTestResult
    <3> HIDE DEF x, a, b
    <3>2. QED
      BY <1>3, <3>1 DEF IsCall, CallFields
  <2> HIDE DEF x
  <2>2. QED
    BY <1>2, <1>3, <2>1 DEF x
<1>4. CASE CredentialPhase(t)
  <2> DEFINE bad == [r EXCEPT !.phases.credential = "failed"]
  <2>1. PICK c : \/ \E code : Goes(t, FormatTestResult(bad, code))
                 \/ Goes(t, [r EXCEPT !.pc = "phase2", !.pair = c, !.phases.credential = "success"])
    BY <1>4 DEF CredentialPhase
  <2>2. IsCall(bad) /\ bad.seen = r.seen
    BY <1>1 DEF IsCall, CallFields
  <2> DEFINE good == [r EXCEPT !.pc = "phase2", !.pair = c, !.phases.credential = "success"]
  <2>3. IsCall(good) /\ good.seen = r.seen /\ good.pc = "phase2"
    BY <1>1 DEF IsCall, CallFields
  <2> HIDE DEF bad, good, r
  <2>4. QED
    BY <1>2, <1>3, <2>1, <2>2, <2>3 DEF good
<1>5. CASE HealthPhase(t)
  <2>1. PICK health \in {"success", "warning", "failed"} :
           LET q == [r EXCEPT !.phases.health = health]
           IN  Goes(t, FormatTestResult(q, "COLLECTOR_UNAVAILABLE")) \/ Goes(t, [q EXCEPT !.pc = "phase3"])
    BY <1>5 DEF HealthPhase
  <2> DEFINE q == [r EXCEPT !.phases.health = health]
             x == [q EXCEPT !.pc = "phase3"]
  <2>2. IsCall(q) /\ q.seen = r.seen
    BY <1>1 DEF IsCall, CallFields
  <2>3. IsCall(x) /\ x.seen = r.seen /\ x.pc = "phase3"
    BY <2>2 DEF IsCall, CallFields
  <2>4. Goes(t, FormatTestResult(q, "COLLECTOR_UNAVAILABLE")) \/ Goes(t, x)
    BY <2>1
  <2> HIDE DEF q, x, r
  <2>5. QED
    BY <1>2, <1>3, <2>2, <2>3, <2>4
<1>6. CASE AuthenticationPhase(t)
  <2>1. PICK p, code : Goes(t, FormatTestResult([r EXCEPT !.phases = p], code))
    BY <1>6 DEF AuthenticationPhase
  <2> DEFINE q == [r EXCEPT !.phases = p]
  <2>2. IsCall(q) /\ q.seen = r.seen
    BY <1>1 DEF IsCall, CallFields
  <2>3. Goes(t, FormatTestResult(q, code))
    BY <2>1
  <2> HIDE DEF q, r
  <2>4. QED
    BY <1>3, <2>2, <2>3
<1>7. CASE ProbeConnection(t)
  <2>1. PICK c, code : Goes(t, [Answered(200) EXCEPT !.pair = c, !.code = code])
    BY <1>7 DEF ProbeConnection
  <2> DEFINE q == [Answered(200) EXCEPT !.pair = c, !.code = code]
  <2>2. IsCall(q) /\ Fresh(q) /\ q.pc = "free"
    BY DEF Fresh, IsCall, CallFields, Answered, Nothing
  <2>3. Goes(t, q)
    BY <2>1
  <2> HIDE DEF q
  <2>4. QED
    BY <1>2, <2>2, <2>3
<1>8. QED
  BY <1>4, <1>5, <1>6, <1>7

(* A restart of the app drops what was under way, whatever key it comes back *)
(* with; one of the collector touches nothing here.                          *)
LEMMA RestartsKeep ==
  ASSUME CredInv, RestartApp \/ RestartCollector
  PROVE  CredInv'
<1>1. CASE RestartCollector
  BY <1>1 DEF RestartCollector, CredInv, RowsInv, CallsInv, history
<1>2. CASE RestartApp
  <2> DEFINE r == [Nothing EXCEPT !.pc = "check"]
  <2>1. call' = [u \in Threads |-> IF u = Seeder THEN r ELSE Nothing]
    BY <1>2 DEF RestartApp
  <2>2. IsCall(r) /\ r.pc = "check" /\ \A s \in Sources : r.seen[s] = 0
    BY DEF IsCall, CallFields, Nothing
  <2> HIDE DEF r
  <2>3. version \in [Sources -> Nat] /\ UNCHANGED <<row, history>> /\ appKey' \in MasterKeys
    BY <1>2 DEF RestartApp, CredInv, RowsInv
  <2>4. Sight(Nothing, row, version, appKey') /\ Sight(r, row, version, appKey')
    BY <2>2, <2>3, NothingIsCall, QuietSight
  <2>5. CallsInv'
    BY <2>1, <2>3, <2>4 DEF CallsInv, history
  <2>6. RowsInv'
    BY <2>3 DEF CredInv, RowsInv, history
  <2>7. QED
    BY <2>5, <2>6 DEF CredInv
<1>3. QED
  BY <1>1, <1>2

LEMMA CredStep ==
  ASSUME CredInv, SystemNext \/ UNCHANGED <<settingVars, credentialVars>>
  PROVE  CredInv'
<1>1. CASE UNCHANGED credentialVars
  BY <1>1 DEF credentialVars, history, CredInv, RowsInv, CallsInv
<1>2. CASE CredentialsNext
  <2>1. ASSUME NEW t \in Http, NEW s \in Sources, DeleteCredentials(t, s) \/ ActivateCredentials(t, s)
        PROVE  CredInv'
    BY <2>1, SwitchKeeps DEF DeleteCredentials, ActivateCredentials
  <2>2. ASSUME NEW t \in Threads,
               \/ ReadCurrent(t) \/ SeedRegtechCredentials(t) \/ ScanPlainRows(t)
               \/ SaveCredentials(t) \/ SelectPayload(t) \/ UpdateCredentialSettings(t)
        PROVE  CredInv'
    BY <2>2, CurrentKeeps, SeedKeeps, ScanKeeps, SaveKeeps, SelectKeeps, UpdateKeeps
  <2>3. QED
    BY <1>2, <2>1, <2>2, RequestsKeep, TestKeeps, RestartsKeep DEF CredentialsNext
<1>3. QED
  BY <1>1, <1>2 DEF SystemNext

(* The stored password is the one given last, and a row is stored the way it *)
(* says, unless a writer that had read an older row wrote it.                *)
THEOREM KeepsPasswords == SystemSpec => []PasswordsAreKept
<1>1. CredInv /\ [SystemNext]_<<settingVars, credentialVars>> => CredInv'
  BY CredStep
<1>2. CredInv => PasswordsAreKept
  BY DEF CredInv, RowsInv, Sound, PasswordsAreKept
<1>3. QED
  BY <1>1, <1>2, CredInit, PTL DEF SystemSpec

LEMMA PairIsThere ==
  ASSUME NEW u, NEW p, NEW e
  PROVE  /\ [user |-> u, password |-> p, enabled |-> e] # Absent
         /\ [user |-> u, password |-> p] # Absent
  BY DEF Absent

(* The readers of a pair, each with its own key and its own copy of the      *)
(* name, agree on it.                                                        *)
THEOREM ReadersReadThePair == SystemSpec => []ReadersAgree
<1>1. CredInv /\ [SystemNext]_<<settingVars, credentialVars>> => CredInv'
  BY CredStep
<1>2. CredInv => ReadersAgree
  <2> SUFFICES ASSUME CredInv PROVE ReadersAgree
    OBVIOUS
  <2> DEFINE r == row["REGTECH"]
             app == GetCredentials("REGTECH")
             collector == GetCollectionCredentials
             loaded == GetRegtechCredentials
  <2>1. appKey # None /\ (r # Absent => Sound(r, latest["REGTECH"], overtaken["REGTECH"]))
    BY CredentialsAssumption DEF CredInv, RowsInv
  <2>2. CASE r = Absent
    BY <2>2 DEF ReadersAgree, Complete, GetCredentials, GetCollectionCredentials,
                GetRegtechCredentials, LoadCredentialsFromDb
  <2>3. CASE r # Absent
    <3>1. IsRow(r) /\ (~r.encrypted => r.payload.key = None) /\ (r.payload.key # None => r.payload.user = r.user)
      BY <2>1, <2>3 DEF Sound
    <3>2. app # Absent => /\ app.user = r.user /\ app.password = r.payload.password
                          /\ r.encrypted => r.payload.key = appKey
      BY <2>1, <2>3, <3>1 DEF GetCredentials
    <3>3. collector # Absent => collector.user = r.user /\ collector.password = r.payload.password
      BY <2>3 DEF GetCollectionCredentials
    <3>4. loaded # Absent => /\ loaded.user = r.user /\ loaded.password = r.payload.password
                             /\ r.encrypted => r.payload.key = colKey
      BY <2>3, <3>1 DEF GetRegtechCredentials, LoadCredentialsFromDb
    <3>5. (r.encrypted => r.payload.key = colKey) => collector # Absent
      BY <2>3, PairIsThere DEF GetCollectionCredentials
    <3>6. Complete(app) /\ appKey = colKey => loaded # Absent
      <4> SUFFICES ASSUME Complete(app), appKey = colKey PROVE loaded # Absent
        OBVIOUS
      <4>1. /\ app # Absent /\ r.user # "" /\ r.payload.password # ""
            /\ r.encrypted => r.payload.key = colKey /\ r.payload.key # None
        BY <2>1, <3>2 DEF Complete
      <4>2. LoadCredentialsFromDb = [user |-> r.user, password |-> r.payload.password]
        BY <2>3, <3>1, <4>1 DEF LoadCredentialsFromDb
      <4>3. QED
        BY <4>1, <4>2, PairIsThere DEF GetRegtechCredentials, Complete
    <3>7. QED
      BY <3>2, <3>3, <3>4, <3>5, <3>6 DEF ReadersAgree, Complete
  <2>4. QED
    BY <2>2, <2>3
<1>3. QED
  BY <1>1, <1>2, CredInit, PTL DEF SystemSpec

-----------------------------------------------------------------------------
(* Tests of a connection *)

Marks(r) == {r.phases.credential, r.phases.health, r.phases.authentication, r.phases.data}

Untested(r) == r.phases = Pending /\ r.collect = FALSE /\ r.code # "connected"

(* A phase is entered with the marks of those before it, all of them good,   *)
(* and with a complete pair; the last one leaves a verdict for those marks.  *)
Verdict(r) ==
    /\ r.pc \notin {"free", "phase2", "phase3"} => Untested(r)
    /\ r.pc \in {"phase2", "phase3"} =>
           /\ Complete(r.pair) /\ r.collect = FALSE /\ r.code # "connected"
           /\ \E health \in {"pending", "success", "warning"} :
                  /\ r.phases = [Pending EXCEPT !.credential = "success", !.health = health]
                  /\ r.pc = "phase3" => health # "pending"
    /\ r.pc = "free" =>
           /\ r.phases # Pending =>
                  /\ r.code = "SUCCESS" <=> Marks(r) \subseteq {"success", "warning"}
                  /\ r.code # "SUCCESS" => Marks(r) \cap {"failed", "error"} # {}
           /\ r.collect => r.code = "SUCCESS" /\ Complete(r.pair)
           /\ r.code = "connected" => r.pair # Absent

VerdictInv ==
    /\ call = [t \in Threads |-> call[t]]
    /\ \A t \in Threads : IsCall(call[t]) /\ Verdict(call[t])

LEMMA UntestedVerdict ==
  ASSUME NEW r, Untested(r), r.pc \notin {"phase2", "phase3"}
  PROVE  Verdict(r)
  BY DEF Untested, Verdict

(* Every record that starts a request, or answers it without a test. *)
Blank(r) == IsCall(r) /\ Untested(r) /\ r.pc \notin {"phase2", "phase3"}

LEMMA BlankRequests ==
  /\ Blank(Nothing)
  /\ \A x : Blank(Answered(x))
  /\ \A op, saves : Blank(Saving(op, saves))
  /\ \A p \in {"check", "scan", "phase1", "current", "probe", "save"} :
         /\ Blank([Nothing EXCEPT !.pc = p])
         /\ \A op : Blank([Nothing EXCEPT !.pc = p, !.op = op])
         /\ \A op, f : Blank([Nothing EXCEPT !.pc = p, !.op = op, !.form = f])
         /\ \A op, seen, saves : Blank([Nothing EXCEPT !.pc = p, !.op = op, !.seen = seen, !.saves = saves])
<1>0. None # "connected"
  BY CredentialsAssumption
<1>1. Blank(Nothing) /\ \A x : Blank(Answered(x))
  BY <1>0 DEF Blank, IsCall, CallFields, Untested, Answered, Nothing
<1>2. ASSUME NEW op, NEW saves PROVE Blank(Saving(op, saves))
  BY <1>0 DEF Blank, IsCall, CallFields, Untested, Saving, Nothing
<1>3. ASSUME NEW p \in {"check", "scan", "phase1", "current", "probe", "save"}, NEW op, NEW f, NEW seen, NEW saves
      PROVE  /\ Blank([Nothing EXCEPT !.pc = p])
             /\ Blank([Nothing EXCEPT !.pc = p, !.op = op])
             /\ Blank([Nothing EXCEPT !.pc = p, !.op = op, !.form = f])
             /\ Blank([Nothing EXCEPT !.pc = p, !.op = op, !.seen = seen, !.saves = saves])
  <2>1. Blank([Nothing EXCEPT !.pc = p])
    BY <1>0 DEF Blank, IsCall, CallFields, Untested, Nothing
  <2>2. Blank([Nothing EXCEPT !.pc = p, !.op = op])
    BY <1>0 DEF Blank, IsCall, CallFields, Untested, Nothing
  <2>3. Blank([Nothing EXCEPT !.pc = p, !.op = op, !.form = f])
    BY <1>0 DEF Blank, IsCall, CallFields, Untested, Nothing
  <2>4. Blank([Nothing EXCEPT !.pc = p, !.op = op, !.seen = seen, !.saves = saves])
    BY <1>0 DEF Blank, IsCall, CallFields, Untested, Nothing
  <2>5. QED
    BY <2>1, <2>2, <2>3, <2>4
<1>4. QED
  BY <1>1, <1>2, <1>3

LEMMA BlankSaved ==
  ASSUME NEW r
  PROVE  Blank(Saved(r))
<1> DEFINE y == [Nothing EXCEPT !.pc = "phase1", !.op = r.op]
<1>1. Saved(r) = Answered(200) \/ Saved(r) = Answered(500) \/ Saved(r) = y
  BY DEF Saved
<1>2. Blank(y) /\ \A x : Blank(Answered(x))
  BY BlankRequests
<1> HIDE DEF y
<1>3. QED
  BY <1>1, <1>2

LEMMA VerdictMoves ==
  ASSUME VerdictInv, NEW t \in Threads, NEW r, IsCall(r), Verdict(r), call' = [call EXCEPT ![t] = r]
  PROVE  VerdictInv'
  BY DEF VerdictInv

LEMMA BlankMoves ==
  ASSUME VerdictInv, NEW t \in Threads, NEW r, Blank(r), call' = [call EXCEPT ![t] = r]
  PROVE  VerdictInv'
  BY VerdictMoves, UntestedVerdict DEF Blank

LEMMA VerdictInit == SystemInit => VerdictInv
<1> SUFFICES ASSUME SystemInit PROVE VerdictInv
  OBVIOUS
<1> DEFINE r == [Nothing EXCEPT !.pc = "check"]
<1>1. call = [t \in Threads |-> IF t = Seeder THEN r ELSE Nothing]
  BY DEF SystemInit, InitCredentials
<1>2. Blank(r) /\ Blank(Nothing)
  BY BlankRequests
<1> HIDE DEF r
<1>3. IsCall(r) /\ Verdict(r) /\ IsCall(Nothing) /\ Verdict(Nothing)
  BY <1>2, UntestedVerdict DEF Blank
<1>4. QED
  BY <1>1, <1>3 DEF VerdictInv

(* A request that is blank stays blank through its reads and writes. *)
LEMMA BlankSteps ==
  ASSUME NEW r, Blank(r)
  PROVE  /\ \A seen : Blank([r EXCEPT !.seen = seen])
         /\ \A p \in {"save", "select"} : Blank([r EXCEPT !.pc = p])
         /\ \A saves : Blank([r EXCEPT !.pc = "save", !.saves = saves])
         /\ \A saves, seen : Blank([r EXCEPT !.pc = "save", !.saves = saves, !.seen = seen])
         /\ \A seen, read : Blank([r EXCEPT !.pc = "update", !.seen = seen, !.payload = read])
         /\ \A p \in {"save", "saved"} : Blank([r EXCEPT !.saves = Tail(@), !.pc = p])
         /\ Blank([r EXCEPT !.failed = @ + 1])
<1>1. ASSUME NEW p \in {"save", "select", "saved"}, NEW seen, NEW saves, NEW read
      PROVE  /\ Blank([r EXCEPT !.seen = seen])
             /\ Blank([r EXCEPT !.pc = p])
             /\ Blank([r EXCEPT !.pc = "save", !.saves = saves])
             /\ Blank([r EXCEPT !.pc = "save", !.saves = saves, !.seen = seen])
             /\ Blank([r EXCEPT !.pc = "update", !.seen = seen, !.payload = read])
             /\ Blank([r EXCEPT !.saves = Tail(@), !.pc = p])
  <2>1. Blank([r EXCEPT !.seen = seen])
    BY DEF Blank, IsCall, CallFields, Untested
  <2>2. Blank([r EXCEPT !.pc = p])
    BY DEF Blank, IsCall, CallFields, Untested
  <2>3. Blank([r EXCEPT !.pc = "save", !.saves = saves])
    BY DEF Blank, IsCall, CallFields, Untested
  <2>4. Blank([r EXCEPT !.pc = "save", !.saves = saves, !.seen = seen])
    BY DEF Blank, IsCall, CallFields, Untested
  <2>5. Blank([r EXCEPT !.pc = "update", !.seen = seen, !.payload = read])
    BY DEF Blank, IsCall, CallFields, Untested
  <2>6. Blank([r EXCEPT !.saves = Tail(@), !.pc = p])
    BY DEF Blank, IsCall, CallFields, Untested
  <2>7. QED
    BY <2>1, <2>2, <2>3, <2>4, <2>5, <2>6
<1>2. Blank([r EXCEPT !.failed = @ + 1])
  BY DEF Blank, IsCall, CallFields, Untested
<1>3. QED
  BY <1>1, <1>2

(* The steps that are no part of a test. *)
LEMMA OtherStepsAreBlank ==
  ASSUME VerdictInv, NEW t \in Threads,
         \/ ReadCurrent(t) \/ SeedRegtechCredentials(t) \/ ScanPlainRows(t)
         \/ SaveCredentials(t) \/ SelectPayload(t) \/ UpdateCredentialSettings(t)
  PROVE  VerdictInv'
<1> DEFINE r == call[t]
<1>0. r.pc \notin {"free", "phase2", "phase3"} => Blank(r)
  BY DEF VerdictInv, Verdict, Blank
<1>1. ASSUME NEW q, Goes(t, q), Blank(q) PROVE VerdictInv'
  BY <1>1, BlankMoves DEF Goes
<1>2. CASE ReadCurrent(t)
  <2> DEFINE q == [r EXCEPT !.seen = version]
  <2>1. Blank(q)
    BY <1>0, <1>2, BlankSteps DEF ReadCurrent
  <2>2. PICK saves : \/ Goes(t, Saved(q))
                     \/ \E x : Goes(t, Answered(x))
                     \/ Goes(t, [q EXCEPT !.pc = "select"])
                     \/ Goes(t, [q EXCEPT !.pc = "save", !.saves = saves])
    BY <1>2 DEF ReadCurrent
  <2> HIDE DEF q, r
  <2>3. /\ Blank(Saved(q)) /\ \A x : Blank(Answered(x))
        /\ Blank([q EXCEPT !.pc = "select"])
        /\ Blank([q EXCEPT !.pc = "save", !.saves = saves])
    BY <2>1, BlankSaved, BlankRequests, BlankSteps
  <2>4. QED
    BY <1>1, <2>2, <2>3
<1>3. CASE SeedRegtechCredentials(t)
  <2>1. PICK seen, saves :
           Goes(t, Nothing) \/ Goes(t, [Nothing EXCEPT !.pc = "save", !.op = "seed", !.seen = seen, !.saves = saves])
    BY <1>3 DEF SeedRegtechCredentials
  <2>2. Blank(Nothing) /\ Blank([Nothing EXCEPT !.pc = "save", !.op = "seed", !.seen = seen, !.saves = saves])
    BY BlankRequests
  <2>3. QED
    BY <1>1, <2>1, <2>2
<1>4. CASE ScanPlainRows(t)
  <2>1. PICK list :
           \/ Goes(t, Answered(200))
           \/ Goes(t, [r EXCEPT !.pc = "save", !.saves = list, !.seen = version])
    BY <1>4 DEF ScanPlainRows
  <2>2. Blank(r)
    BY <1>0, <1>4 DEF ScanPlainRows
  <2> HIDE DEF r
  <2>3. Blank(Answered(200)) /\ Blank([r EXCEPT !.pc = "save", !.saves = list, !.seen = version])
    BY <2>2, BlankRequests, BlankSteps
  <2>4. QED
    BY <1>1, <2>1, <2>3
<1>5. CASE SaveCredentials(t)
  <2> DEFINE p == IF Len(r.saves) > 1 THEN "save" ELSE "saved"
             rest == [r EXCEPT !.saves = Tail(@), !.pc = p]
             after(q) == IF q.pc = "saved" THEN Saved(q) ELSE q
             failed == [rest EXCEPT !.failed = @ + 1]
  <2>1. Goes(t, after(rest)) \/ Goes(t, after(failed))
    BY <1>5 DEF SaveCredentials
  <2>2. Blank(r) /\ p \in {"save", "saved"}
    BY <1>0, <1>5 DEF SaveCredentials
  <2> HIDE DEF r, p
  <2>3. Blank(rest)
    BY <2>2, BlankSteps
  <2> HIDE DEF rest
  <2>4. Blank(failed)
    BY <2>3, BlankSteps
  <2> HIDE DEF failed
  <2>5. Blank(after(rest)) /\ Blank(after(failed))
    BY <2>3, <2>4, BlankSaved
  <2> HIDE DEF after
  <2>6. QED
    BY <1>1, <2>1, <2>5
<1>6. CASE SelectPayload(t)
  <2>1. PICK read :
           \/ Goes(t, Answered(500))
           \/ Goes(t, [r EXCEPT !.pc = "update", !.seen = version, !.payload = read])
    BY <1>6 DEF SelectPayload
  <2>2. Blank(r)
    BY <1>0, <1>6 DEF SelectPayload
  <2> HIDE DEF r
  <2>3. Blank(Answered(500)) /\ Blank([r EXCEPT !.pc = "update", !.seen = version, !.payload = read])
    BY <2>2, BlankRequests, BlankSteps
  <2>4. QED
    BY <1>1, <2>1, <2>3
<1>7. CASE UpdateCredentialSettings(t)
  <2>1. Goes(t, Answered(200)) \/ Goes(t, Answered(500))
    BY <1>7 DEF UpdateCredentialSettings
  <2>2. QED
    BY <1>1, <2>1, BlankRequests
<1>8. QED
  BY <1>2, <1>3, <1>4, <1>5, <1>6, <1>7

(* A request, a switch of a row and a restart leave no verdict behind. *)
LEMMA RequestsAreBlank ==
  ASSUME VerdictInv, NEW t \in Http,
         \/ \E f \in Forms : ManageCredentials(t, f)
         \/ \E user \in Users, password \in Passwords :
                \/ SetRegtechCredentials(t, user, password)
                \/ ApiSaveCredentials(t, user, password)
                \/ PanelSaveCredentials(t, user, password)
         \/ \E password \in Passwords : UpdateRegtechPassword(t, password)
         \/ InitializeRegtech(t) \/ MigrateExistingCredentials(t) \/ TestConnection(t)
         \/ \E s \in Sources : TestCredentials(t, s) \/ DeleteCredentials(t, s) \/ ActivateCredentials(t, s)
  PROVE  VerdictInv'
<1>1. ASSUME NEW q, call' = [call EXCEPT ![t] = q], Blank(q) PROVE VerdictInv'
  BY <1>1, BlankMoves DEF Threads
<1>2. ASSUME NEW x, call' = [call EXCEPT ![t] = Answered(x)] PROVE VerdictInv'
  BY <1>1, <1>2, BlankRequests
<1>3. ASSUME NEW op, NEW saves, call' = [call EXCEPT ![t] = Saving(op, saves)] PROVE VerdictInv'
  BY <1>1, <1>3, BlankRequests
<1>4. ASSUME NEW p \in {"scan", "phase1", "current", "probe"}, NEW op, NEW f,
             \/ call' = [call EXCEPT ![t] = [Nothing EXCEPT !.pc = p, !.op = op]]
             \/ call' = [call EXCEPT ![t] = [Nothing EXCEPT !.pc = p, !.op = op, !.form = f]]
      PROVE  VerdictInv'
  <2> DEFINE q == [Nothing EXCEPT !.pc = p, !.op = op]
             r == [Nothing EXCEPT !.pc = p, !.op = op, !.form = f]
  <2>1. Blank(q) /\ Blank(r)
    BY BlankRequests
  <2>2. call' = [call EXCEPT ![t] = q] \/ call' = [call EXCEPT ![t] = r]
    BY <1>4
  <2> HIDE DEF q, r
  <2>3. QED
    BY <1>1, <2>1, <2>2
<1>5. ASSUME NEW f, ManageCredentials(t, f) PROVE VerdictInv'
  BY <1>2, <1>3, <1>4, <1>5 DEF ManageCredentials, Call
<1>6. ASSUME NEW user, NEW password,
             \/ SetRegtechCredentials(t, user, password)
             \/ ApiSaveCredentials(t, user, password)
             \/ PanelSaveCredentials(t, user, password)
      PROVE  VerdictInv'
  BY <1>2, <1>3, <1>6 DEF SetRegtechCredentials, ApiSaveCredentials, PanelSaveCredentials, Call
<1>7. ASSUME NEW password, UpdateRegtechPassword(t, password) PROVE VerdictInv'
  BY <1>2, <1>4, <1>7 DEF UpdateRegtechPassword, Call
<1>8. ASSUME InitializeRegtech(t) \/ MigrateExistingCredentials(t) \/ TestConnection(t) PROVE VerdictInv'
  BY <1>4, <1>8 DEF InitializeRegtech, MigrateExistingCredentials, TestConnection, Call
<1>9. ASSUME NEW s, TestCredentials(t, s) PROVE VerdictInv'
  BY <1>4, <1>9 DEF TestCredentials, Call
<1>10. ASSUME NEW s, DeleteCredentials(t, s) \/ ActivateCredentials(t, s) PROVE VerdictInv'
  <2>1. \E x : call' = [call EXCEPT ![t] = Answered(x)]
    BY <1>10, Zenon DEF DeleteCredentials, ActivateCredentials, SetActive
  <2>2. QED
    BY <1>2, <2>1
<1>11. QED
  BY <1>5, <1>6, <1>7, <1>8, <1>9, <1>10

(* What a test that ends at a phase leaves. *)
LEMMA TestEnds ==
  ASSUME NEW q, IsCall(q), NEW code, code # "connected", q.phases # Pending,
         code = "SUCCESS" => Complete(q.pair) /\ Marks(q) \subseteq {"success", "warning"},
         code # "SUCCESS" => Marks(q) \cap {"failed", "error"} # {}
  PROVE  IsCall(FormatTestResult(q, code)) /\ Verdict(FormatTestResult(q, code))
<1> DEFINE b == (code = "SUCCESS")
           a == CASE q.op # "test" -> 200
                  [] code = "SUCCESS" -> 200
                  [] code = "NO_CREDENTIALS" -> 404
                  [] code = "COLLECTOR_UNAVAILABLE" -> 503
                  [] OTHER -> 400
           x == FormatTestResult(q, code)
<1>1. x = [q EXCEPT !.pc = "free", !.op = None, !.code = code, !.collect = b, !.answer = a]
  BY DEF FormatTestResult
<1>2. b => code = "SUCCESS"
  OBVIOUS
<1> HIDE DEF x, a, b
<1>3. /\ IsCall(x) /\ x.pc = "free" /\ x.code = code /\ x.phases = q.phases /\ x.pair = q.pair
      /\ x.collect = b
  BY <1>1 DEF IsCall, CallFields
<1>4. Marks(x) = Marks(q)
  BY <1>3 DEF Marks
<1>5. Marks(q) \cap {"failed", "error"} # {} => ~(Marks(q) \subseteq {"success", "warning"})
  OBVIOUS
<1>6. x.collect => x.code = "SUCCESS"
  BY <1>2, <1>3, Zenon
<1>7. Verdict(x)
  BY <1>3, <1>4, <1>5, <1>6 DEF Verdict
<1>8. QED
  BY <1>3, <1>7 DEF x

LEMMA TestsAreNamed ==
  ASSUME VerdictInv, NEW t \in Threads,
         CredentialPhase(t) \/ HealthPhase(t) \/ AuthenticationPhase(t) \/ ProbeConnection(t)
  PROVE  VerdictInv'
<1> DEFINE r == call[t]
<1>0. IsCall(r) /\ Verdict(r)
  BY DEF VerdictInv
<1>1. ASSUME NEW q, Goes(t, q), IsCall(q), Verdict(q) PROVE VerdictInv'
  BY <1>1, VerdictMoves DEF Goes
<1>2. CASE CredentialPhase(t)
  <2> DEFINE bad == [r EXCEPT !.phases.credential = "failed"]
  <2>1. Untested(r)
    BY <1>0, <1>2 DEF CredentialPhase, Verdict
  <2>2. PICK c : \/ \E code \in {"NO_CREDENTIALS", "INCOMPLETE_CREDENTIALS"} :
                        Goes(t, FormatTestResult(bad, code))
                 \/ /\ Complete(c)
                    /\ Goes(t, [r EXCEPT !.pc = "phase2", !.pair = c, !.phases.credential = "success"])
    <3>1. PICK ok \in BOOLEAN :
            LET c == IF ok THEN GetCredentials("REGTECH") ELSE Absent
            IN  Goes(t, IF c = Absent THEN FormatTestResult(bad, "NO_CREDENTIALS")
                        ELSE IF ~Complete(c) THEN FormatTestResult(bad, "INCOMPLETE_CREDENTIALS")
                        ELSE [r EXCEPT !.pc = "phase2", !.pair = c, !.phases.credential = "success"])
      BY <1>2 DEF CredentialPhase
    <3> DEFINE c == IF ok THEN GetCredentials("REGTECH") ELSE Absent
    <3>2. \/ Goes(t, FormatTestResult(bad, "NO_CREDENTIALS"))
          \/ Goes(t, FormatTestResult(bad, "INCOMPLETE_CREDENTIALS"))
          \/ /\ Complete(c)
             /\ Goes(t, [r EXCEPT !.pc = "phase2", !.pair = c, !.phases.credential = "success"])
      BY <3>1
    <3> HIDE DEF c, bad, r
    <3>3. QED
      BY <3>2
  <2>3. IsCall(bad) /\ bad.phases = [Pending EXCEPT !.credential = "failed"]
    BY <1>0, <2>1 DEF IsCall, CallFields, Untested
  <2>4. bad.phases # Pending /\ "failed" \in Marks(bad)
    BY <2>3 DEF Marks, Pending
  <2> DEFINE good == [r EXCEPT !.pc = "phase2", !.pair = c, !.phases.credential = "success"]
  <2>5. /\ IsCall(good) /\ good.pc = "phase2" /\ good.pair = c /\ good.collect = r.collect
        /\ good.code = r.code /\ good.phases = [r.phases EXCEPT !.credential = "success"]
    BY <1>0 DEF IsCall, CallFields
  <2>6. good.phases = [Pending EXCEPT !.credential = "success", !.health = "pending"]
    <3>1. good.phases = [Pending EXCEPT !.credential = "success"]
      BY <2>1, <2>5 DEF Untested
    <3>2. [Pending EXCEPT !.credential = "success"] = [Pending EXCEPT !.credential = "success", !.health = "pending"]
      <4> DEFINE p == Pending
      <4>1. p = [f \in DOMAIN p |-> p[f]] /\ "health" \in DOMAIN p /\ p.health = "pending"
        BY DEF Pending
      <4> HIDE DEF p
      <4>2. [p EXCEPT !.credential = "success", !.health = "pending"] = [p EXCEPT !.credential = "success"]
        BY <4>1
      <4>3. QED
        BY <4>2 DEF p
    <3> HIDE DEF good
    <3>3. QED
      BY <3>1, <3>2
  <2>7. Goes(t, good) /\ Complete(c) => VerdictInv'
    <3> HIDE DEF good, r
    <3>1. Complete(c) => Verdict(good)
      BY <2>1, <2>5, <2>6 DEF Verdict, Untested
    <3>2. QED
      BY <1>1, <2>5, <3>1
  <2> HIDE DEF bad
  <2>8. ASSUME NEW code \in {"NO_CREDENTIALS", "INCOMPLETE_CREDENTIALS"},
               Goes(t, FormatTestResult(bad, code))
        PROVE  VerdictInv'
    <3>1. IsCall(FormatTestResult(bad, code)) /\ Verdict(FormatTestResult(bad, code))
      BY <2>3, <2>4, TestEnds
    <3>2. QED
      BY <1>1, <2>8, <3>1
  <2>9. QED
    BY <2>2, <2>7, <2>8
<1>3. CASE HealthPhase(t)
  <2>1. PICK health \in {"success", "warning", "failed"} :
           LET q == [r EXCEPT !.phases.health = health]
           IN  Goes(t, IF health = "failed" THEN FormatTestResult(q, "COLLECTOR_UNAVAILABLE")
                       ELSE [q EXCEPT !.pc = "phase3"])
    BY <1>3 DEF HealthPhase
  <2> DEFINE q == [r EXCEPT !.phases.health = health]
             x == [q EXCEPT !.pc = "phase3"]
  <2>2. r.pc = "phase2"
    BY <1>3 DEF HealthPhase
  <2>3. PICK was \in {"pending", "success", "warning"} :
           r.phases = [Pending EXCEPT !.credential = "success", !.health = was]
    BY <1>0, <2>2 DEF Verdict
  <2>4. Complete(r.pair) /\ r.collect = FALSE /\ r.code # "connected"
    BY <1>0, <2>2 DEF Verdict
  <2>5. /\ IsCall(q) /\ q.pair = r.pair /\ q.collect = r.collect /\ q.code = r.code
        /\ q.phases = [r.phases EXCEPT !.health = health]
    BY <1>0 DEF IsCall, CallFields
  <2>6. q.phases = [Pending EXCEPT !.credential = "success", !.health = health]
    BY <2>3, <2>5 DEF Pending
  <2>7. /\ IsCall(x) /\ x.pc = "phase3" /\ x.pair = q.pair /\ x.collect = q.collect
        /\ x.code = q.code /\ x.phases = q.phases
    BY <2>5 DEF IsCall, CallFields
  <2>8. CASE health = "failed"
    <3>1. q.phases # Pending /\ "failed" \in Marks(q)
      <4>1. q.phases.health = "failed"
        BY <2>6, <2>8 DEF Pending
      <4>2. Pending.health = "pending"
        BY DEF Pending
      <4> HIDE DEF q
      <4>3. QED
        BY <4>1, <4>2 DEF Marks
    <3>2. Goes(t, FormatTestResult(q, "COLLECTOR_UNAVAILABLE"))
      BY <2>1, <2>8
    <3> HIDE DEF q
    <3>3. IsCall(FormatTestResult(q, "COLLECTOR_UNAVAILABLE")) /\ Verdict(FormatTestResult(q, "COLLECTOR_UNAVAILABLE"))
      BY <2>5, <3>1, TestEnds
    <3>4. QED
      BY <1>1, <3>2, <3>3
  <2>9. CASE health # "failed"
    <3>1. Goes(t, x)
      BY <2>1, <2>9
    <3> HIDE DEF x, q, r
    <3>2. Verdict(x)
      BY <2>4, <2>5, <2>6, <2>7, <2>9 DEF Verdict
    <3>3. QED
      BY <1>1, <2>7, <3>1, <3>2
  <2>10. QED
    BY <2>8, <2>9
<1>4. CASE AuthenticationPhase(t)
  <2>1. PICK outcome \in {"success", "failed", "error"} :
           LET p == [r.phases EXCEPT !.authentication = outcome,
                                     !.data = IF outcome = "error" THEN @ ELSE outcome]
               code == CASE outcome = "success" -> "SUCCESS"
                         [] outcome = "failed"  -> "AUTH_FAILED"
                         [] outcome = "error"   -> "AUTH_ERROR"
           IN  Goes(t, FormatTestResult([r EXCEPT !.phases = p], code))
    BY <1>4 DEF AuthenticationPhase
  <2> DEFINE p == [r.phases EXCEPT !.authentication = outcome,
                                   !.data = IF outcome = "error" THEN @ ELSE outcome]
             code == CASE outcome = "success" -> "SUCCESS"
                       [] outcome = "failed"  -> "AUTH_FAILED"
                       [] outcome = "error"   -> "AUTH_ERROR"
             q == [r EXCEPT !.phases = p]
  <2>2. PICK health \in {"success", "warning"} :
           r.phases = [Pending EXCEPT !.credential = "success", !.health = health]
    BY <1>0, <1>4 DEF Verdict, AuthenticationPhase
  <2>3. Complete(r.pair)
    BY <1>0, <1>4 DEF Verdict, AuthenticationPhase
  <2>4. IsCall(q) /\ q.phases = p /\ q.pair = r.pair
    BY <1>0 DEF IsCall, CallFields
  <2>5. /\ p.credential = "success" /\ p.health = health /\ p.authentication = outcome
        /\ p.data = IF outcome = "error" THEN "pending" ELSE outcome
    BY <2>2 DEF Pending
  <2>6. p # Pending
    BY <2>5 DEF Pending
  <2>7. /\ code = "SUCCESS" => outcome = "success"
        /\ code # "SUCCESS" => outcome \in {"failed", "error"}
        /\ code # "connected"
    OBVIOUS
  <2> HIDE DEF p, q, code
  <2>8. code = "SUCCESS" => Marks(q) \subseteq {"success", "warning"}
    BY <2>4, <2>5, <2>7 DEF Marks
  <2>9. code # "SUCCESS" => Marks(q) \cap {"failed", "error"} # {}
    BY <2>4, <2>5, <2>7 DEF Marks
  <2>10. IsCall(FormatTestResult(q, code)) /\ Verdict(FormatTestResult(q, code))
    BY <2>3, <2>4, <2>6, <2>7, <2>8, <2>9, TestEnds
  <2>11. Goes(t, FormatTestResult(q, code))
    BY <2>1 DEF q, p, code
  <2>12. QED
    BY <1>1, <2>10, <2>11
<1>5. CASE ProbeConnection(t)
  <2>1. PICK pair, code :
           /\ Goes(t, [Answered(200) EXCEPT !.pair = pair, !.code = code])
           /\ code = "connected" => pair # Absent
    <3>1. PICK accepted \in BOOLEAN :
            LET c == IF call[t].form.source = "CLOUDFLARE" THEN GetCredentials("CLOUDFLARE")
                     ELSE GetCollectionCredentials
                asked == IF call[t].form.source = "CLOUDFLARE"
                         THEN c # Absent /\ c.password # "" /\ row["CLOUDFLARE"].config = "ids"
                         ELSE c # Absent /\ c.enabled
            IN  Goes(t, [Answered(200) EXCEPT !.pair = IF asked THEN c ELSE Absent,
                                              !.code = IF asked /\ accepted THEN "connected" ELSE "failed"])
      BY <1>5 DEF ProbeConnection
    <3> DEFINE c == IF call[t].form.source = "CLOUDFLARE" THEN GetCredentials("CLOUDFLARE")
                    ELSE GetCollectionCredentials
               asked == IF call[t].form.source = "CLOUDFLARE"
                        THEN c # Absent /\ c.password # "" /\ row["CLOUDFLARE"].config = "ids"
                        ELSE c # Absent /\ c.enabled
               pair == IF asked THEN c ELSE Absent
               code == IF asked /\ accepted THEN "connected" ELSE "failed"
    <3>2. asked => c # Absent
      OBVIOUS
    <3>3. Goes(t, [Answered(200) EXCEPT !.pair = pair, !.code = code])
      BY <3>1
    <3>4. code = "connected" => pair # Absent
      <4> HIDE DEF c, asked
      <4>1. QED
        BY <3>2
    <3> HIDE DEF pair, code
    <3>5. QED
      BY <3>3, <3>4
  <2> DEFINE q == [Answered(200) EXCEPT !.pair = pair, !.code = code]
  <2>2. /\ IsCall(q) /\ q.pc = "free" /\ q.phases = Pending /\ q.collect = FALSE
        /\ q.pair = pair /\ q.code = code
    BY DEF IsCall, CallFields, Answered, Nothing
  <2>3. Goes(t, q)
    BY <2>1
  <2> HIDE DEF q
  <2>4. Verdict(q)
    BY <2>1, <2>2 DEF Verdict
  <2>5. QED
    BY <1>1, <2>2, <2>3, <2>4
<1>6. QED
  BY <1>2, <1>3, <1>4, <1>5

(* A restart drops every test that was under way. *)
LEMMA RestartsAreBlank ==
  ASSUME VerdictInv, RestartApp \/ RestartCollector
  PROVE  VerdictInv'
<1>1. CASE RestartApp
  <2> DEFINE q(t) == IF t = Seeder THEN [Nothing EXCEPT !.pc = "check"] ELSE Nothing
  <2>1. call' = [t \in Threads |-> q(t)]
    BY <1>1 DEF RestartApp
  <2>2. ASSUME NEW t PROVE Blank(q(t))
    BY BlankRequests
  <2> HIDE DEF q
  <2>3. ASSUME NEW t \in Threads PROVE IsCall(call'[t]) /\ Verdict(call'[t])
    BY <2>1, <2>2, UntestedVerdict DEF Blank
  <2>4. call' = [t \in Threads |-> call'[t]]
    BY <2>1
  <2>5. QED
    BY <2>3, <2>4 DEF VerdictInv
<1>2. CASE RestartCollector
  BY <1>2 DEF RestartCollector, VerdictInv
<1>3. QED
  BY <1>1, <1>2

LEMMA VerdictStep == VerdictInv /\ [SystemNext]_<<settingVars, credentialVars>> => VerdictInv'
<1> SUFFICES ASSUME VerdictInv, [SystemNext]_<<settingVars, credentialVars>> PROVE VerdictInv'
  OBVIOUS
<1>1. ASSUME UNCHANGED credentialVars PROVE VerdictInv'
  BY <1>1 DEF credentialVars, VerdictInv
<1>2. ASSUME CredentialsNext PROVE VerdictInv'
  BY <1>2, RequestsAreBlank, OtherStepsAreBlank, TestsAreNamed, RestartsAreBlank DEF CredentialsNext
<1>3. QED
  BY <1>1, <1>2 DEF SystemNext

(* What the readers of a row tell of it, each in its own words. *)
LEMMA ToldAlike == EndpointsAgree
<1>0. None \notin {"undecryptable", "missing"} /\ "REGTECH" \in Sources
  BY CredentialsAssumption
<1>1. ASSUME NEW s
      PROVE  /\ ListCredentials(s) = GetManagedCredentials(s)
             /\ PanelCredentials(s) = AdminCredentials(s)
             /\ ListCredentials(s).configured <=> GetCredentials(s) # Absent
             /\ ValidateCredentials(s).configured <=> Complete(GetCredentials(s))
             /\ ValidateCredentials(s).configured => ListCredentials(s) = ValidateCredentials(s)
             /\ CollectionCredentials(s).authenticated <=> Complete(GetCredentials(s))
             /\ CollectionCredentials(s).error = None <=> GetCredentials(s) # Absent
             /\ CollectionCredentials(s).error = "missing" <=>
                    GetCredentials(s) = Absent /\ ~(row[s] # Absent /\ row[s].active)
  <2> DEFINE c == GetCredentials(s)
  <2> HIDE DEF c
  <2>1. CASE c = Absent
    <3>1. ~Complete(c)
      BY <2>1 DEF Complete
    <3>2. ListCredentials(s) = Nobody /\ GetManagedCredentials(s) = Nobody /\ ValidateCredentials(s) = Nobody
      BY <2>1, <3>1 DEF ListCredentials, GetManagedCredentials, ValidateCredentials, c
    <3>3. PanelCredentials(s) = Nobody /\ AdminCredentials(s) = Nobody
      BY <2>1 DEF PanelCredentials, AdminCredentials, Nobody, c
    <3>4. CollectionCredentials(s) =
             IF row[s] # Absent /\ row[s].active THEN [error |-> "undecryptable", authenticated |-> FALSE]
             ELSE [error |-> "missing", authenticated |-> FALSE]
      BY <2>1 DEF CollectionCredentials, c
    <3>5. /\ ListCredentials(s).configured = FALSE /\ ValidateCredentials(s).configured = FALSE
          /\ CollectionCredentials(s).authenticated = FALSE
          /\ CollectionCredentials(s).error # None
      <4>1. ListCredentials(s).configured = FALSE /\ ValidateCredentials(s).configured = FALSE
        <5>1. Nobody.configured = FALSE
          BY DEF Nobody
        <5>2. QED
          BY <3>2, <5>1
      <4>2. CollectionCredentials(s).authenticated = FALSE
        BY <3>4
      <4>3. CollectionCredentials(s).error \in {"undecryptable", "missing"}
        BY <3>4
      <4>4. QED
        BY <1>0, <4>1, <4>2, <4>3
    <3>6. CollectionCredentials(s).error = "missing" <=> ~(row[s] # Absent /\ row[s].active)
      BY <3>4
    <3>7. QED
      BY <2>1, <3>1, <3>2, <3>3, <3>5, <3>6 DEF c
  <2>2. CASE c # Absent
    <3>1. ListCredentials(s) = Told(c) /\ GetManagedCredentials(s) = Told(c)
      BY <2>2 DEF ListCredentials, GetManagedCredentials, c
    <3>2. ValidateCredentials(s) = IF Complete(c) THEN Told(c) ELSE Nobody
      BY DEF ValidateCredentials, c
    <3>3. PanelCredentials(s) = AdminCredentials(s)
      BY <2>2 DEF PanelCredentials, AdminCredentials, c
    <3>4. CollectionCredentials(s) = [error |-> None, authenticated |-> Complete(c)]
      BY <2>2 DEF CollectionCredentials, c
    <3>5. ListCredentials(s).configured = TRUE /\ CollectionCredentials(s).error = None
      BY <3>1, <3>4 DEF Told
    <3>6. CollectionCredentials(s).authenticated = Complete(c)
      BY <3>4
    <3>7. ValidateCredentials(s).configured <=> Complete(c)
      <4>1. Told(c).configured = TRUE /\ Nobody.configured = FALSE
        BY DEF Told, Nobody
      <4>2. QED
        BY <3>2, <4>1
    <3>8. QED
      BY <1>0, <2>2, <3>1, <3>2, <3>3, <3>5, <3>6, <3>7 DEF c
  <2>3. QED
    BY <2>1, <2>2
<1>2. ASSUME NEW s PROVE GetCredentials(s) # Absent => row[s] # Absent /\ row[s].active
  BY DEF GetCredentials
<1>3. ASSUME NEW s \in Sources PROVE s \in StoredCredentials <=> row[s] # Absent /\ row[s].active
  BY DEF StoredCredentials
<1>4. Complete(GetCredentials("REGTECH")) => GetCredentials("REGTECH") # Absent
  BY DEF Complete
<1>5. CredentialStatus.source = "database" <=> Complete(GetCredentials("REGTECH"))
  <2> DEFINE c == GetCredentials("REGTECH")
  <2> HIDE DEF c
  <2>1. CredentialStatus =
           IF Complete(c) THEN [source |-> "database", user |-> c.user]
           ELSE IF EnvPair # None THEN [source |-> "environment", user |-> EnvPair.user]
           ELSE [source |-> "none", user |-> ""]
    BY DEF CredentialStatus, c
  <2>2. QED
    BY <2>1 DEF c
<1>6. LoadCloudflare # "" => GetCredentials("CLOUDFLARE") # Absent
  BY DEF LoadCloudflare
<1>7. CountHasCredentials <=> row["REGTECH"] # Absent /\ row["REGTECH"].active
  BY DEF CountHasCredentials
<1>8. QED
  BY <1>1, <1>2, <1>3, <1>4, <1>5, <1>6, <1>7 DEF EndpointsAgree

(* Whatever an endpoint says of a row, the others say too, and a test of a   *)
(* connection ends with the code of the phase that failed (EndpointsTell-    *)
(* TheTruth): a test fills in its marks in order, and keeps them to itself.  *)
THEOREM EndpointsAreRight == SystemSpec => []EndpointsTellTheTruth
<1>1. VerdictInv => TestsNameTheirFailure
  <2> SUFFICES ASSUME VerdictInv, NEW t \in Http
               PROVE  LET r == call[t]
                          marks == {r.phases.credential, r.phases.health, r.phases.authentication, r.phases.data}
                      IN  /\ r.pc = "free" /\ r.phases # Pending =>
                                 /\ r.code = "SUCCESS" <=> marks \subseteq {"success", "warning"}
                                 /\ r.code # "SUCCESS" => marks \cap {"failed", "error"} # {}
                          /\ r.collect => r.code = "SUCCESS" /\ Complete(r.pair)
                          /\ r.code = "connected" => r.pair # Absent
    BY DEF TestsNameTheirFailure
  <2>1. Verdict(call[t])
    BY DEF VerdictInv, Threads
  <2> QED
    BY <2>1 DEF Verdict, Untested, Marks
<1>2. VerdictInv => EndpointsTellTheTruth
  BY <1>1, ToldAlike DEF EndpointsTellTheTruth
<1>3. QED
  BY <1>2, VerdictInit, VerdictStep, PTL DEF SystemSpec

=============================================================================
