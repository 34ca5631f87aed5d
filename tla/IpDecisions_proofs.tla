------------------------- MODULE IpDecisions_proofs -------------------------
(***************************************************************************)
(* Proofs about IpDecisions, for every number of worker threads, every      *)
(* lifetime of a key, every duration of a check and every set of faults.    *)
(***************************************************************************)
EXTENDS IpDecisions, TLAPS

Locations == {"idle", "get whitelist", "query whitelist", "set whitelist",
              "get blacklist", "query blacklist", "set blacklist"}

Answers == {"none", "whitelisted", "blocked", "clean", "error"}

-----------------------------------------------------------------------------
(* Types *)

TablesType == white \in BOOLEAN /\ listed \in BOOLEAN

KeysType == whitelistKey \in Key /\ blacklistKey \in Key

ChecksType ==
    /\ pc \in [Checkers -> Locations]
    /\ seen \in [Checkers -> BOOLEAN]
    /\ age \in [Checkers -> 0 .. CheckTicks]
    /\ decision \in [Checkers -> Answers]

AgoType == ago \in [Facts -> 0 .. Horizon + 1]

FlagsType == caching \in BOOLEAN /\ disturbed \in BOOLEAN

(* A request in flight is one of the changes. *)
BoundsType ==
    /\ writes \in Nat /\ changes \in 0 .. MaxChanges
    /\ writes <= changes
    /\ mishaps \in 0 .. MaxMishaps

TypeInv ==
    /\ TablesType
    /\ KeysType
    /\ ChecksType
    /\ AgoType
    /\ FlagsType
    /\ BoundsType

LEMMA EntryInKey ==
  ASSUME NEW value \in BOOLEAN
  PROVE  Entry(value) \in Key
BY TtlAssumption DEF Entry, Key

LEMMA ExpireInKey ==
  ASSUME NEW key \in Key
  PROVE  Expire(key) \in Key
<1> USE TtlAssumption DEF Key, Absent, Expire
<1>1. CASE key = Absent
  BY <1>1
<1>2. ASSUME key \in [value : {"true", "false"}, ttl : 1 .. CacheTtl]
      PROVE  Expire(key) \in Key
  <2>1. CASE key.ttl = 1
    BY <2>1
  <2>2. CASE key.ttl > 1
    BY <1>2, <2>2
  <2>3. QED
    BY <1>2, <2>1, <2>2
<1>3. QED
  BY <1>1, <1>2

LEMMA GoToChecks ==
  ASSUME ChecksType, NEW c \in Checkers, NEW place \in Locations, GoTo(c, place)
  PROVE  ChecksType'
<1> USE DEF ChecksType, GoTo
<1>1. pc' \in [Checkers -> Locations] /\ seen' \in [Checkers -> BOOLEAN]
  OBVIOUS
<1>2. age' \in [Checkers -> 0 .. CheckTicks] /\ decision' \in [Checkers -> Answers]
  OBVIOUS
<1>3. QED
  BY <1>1, <1>2

LEMMA StoreChecks ==
  ASSUME ChecksType, NEW c \in Checkers, NEW place \in Locations,
         NEW found \in BOOLEAN, Store(c, place, found)
  PROVE  ChecksType'
<1> USE DEF ChecksType, Store
<1>1. pc' \in [Checkers -> Locations] /\ seen' \in [Checkers -> BOOLEAN]
  OBVIOUS
<1>2. age' \in [Checkers -> 0 .. CheckTicks] /\ decision' \in [Checkers -> Answers]
  OBVIOUS
<1>3. QED
  BY <1>1, <1>2

LEMMA DecideChecks ==
  ASSUME ChecksType, NEW c \in Checkers, NEW answer \in Answers, Decide(c, answer)
  PROVE  ChecksType'
<1> USE DEF ChecksType, Decide
<1>1. pc' \in [Checkers -> Locations]
  BY DEF Locations
<1>2. seen' \in [Checkers -> BOOLEAN]
  OBVIOUS
<1>3. age' \in [Checkers -> 0 .. CheckTicks]
  BY TtlAssumption
<1>4. decision' \in [Checkers -> Answers]
  OBVIOUS
<1>5. QED
  BY <1>1, <1>2, <1>3, <1>4

(* A step of a check goes on, remembers what it found, or ends. *)
Goes(c)   == \E place \in Locations : GoTo(c, place)
Stores(c) == \E place \in Locations, found \in BOOLEAN : Store(c, place, found)
Ends(c)   == \E answer \in Answers : Decide(c, answer)

LEMMA CheckMoves ==
  ASSUME TablesType, NEW c \in Checkers, Check(c)
  PROVE  Goes(c) \/ Stores(c) \/ Ends(c)
<1>1. GetWhitelistKey(c) => Goes(c) \/ Ends(c)
  BY Zenon DEF GetWhitelistKey, Goes, Ends, Locations, Answers
<1>2. QueryWhitelist(c) => Goes(c) \/ Stores(c)
  BY Zenon DEF QueryWhitelist, TablesType, Goes, Stores, Locations
<1>3. SetWhitelistKey(c) => Goes(c) \/ Ends(c)
  BY Zenon DEF SetWhitelistKey, Goes, Ends, Locations, Answers
<1>4. GetBlacklistKey(c) => Goes(c) \/ Ends(c)
  BY Zenon DEF GetBlacklistKey, Goes, Ends, Locations, Answers
<1>5. QueryBlacklist(c) => Stores(c) \/ Ends(c)
  BY Zenon DEF QueryBlacklist, TablesType, Stores, Ends, Locations, Answers
<1>6. SetBlacklistKey(c) => Ends(c)
  BY Zenon DEF SetBlacklistKey, Ends, Answers
<1>7. QED
  BY <1>1, <1>2, <1>3, <1>4, <1>5, <1>6 DEF Check

LEMMA InitTypeInv == Init => TypeInv
<1> SUFFICES ASSUME Init
             PROVE  TypeInv
  OBVIOUS
<1> USE DEF Init
<1>1. TablesType /\ KeysType /\ FlagsType
  BY DEF TablesType, KeysType, FlagsType, Key
<1>2. ChecksType
  BY TtlAssumption DEF ChecksType, Locations, Answers
<1>3. AgoType
  BY TtlAssumption DEF AgoType, Horizon, Lifetime
<1>4. BoundsType
  BY BoundAssumption DEF BoundsType
<1>5. QED
  BY <1>1, <1>2, <1>3, <1>4 DEF TypeInv

LEMMA NextTypeInv ==
  ASSUME TypeInv, [Next]_vars
  PROVE  TypeInv'
<1> USE DEF TypeInv
<1>1. TablesType'
  <2>1. ASSUME NEW c \in Checkers, Begin(c) \/ Check(c)
        PROVE  TablesType'
    BY <2>1 DEF TablesType, tables, Begin, Check, GetWhitelistKey,
      QueryWhitelist, SetWhitelistKey, GetBlacklistKey, QueryBlacklist,
      SetBlacklistKey
  <2>2. ASSUME NEW isWhite \in BOOLEAN, NEW isListed \in BOOLEAN,
               Commit(isWhite, isListed)
        PROVE  TablesType'
    BY <2>2 DEF TablesType, Commit, Update
  <2>3. ASSUME NEW writer \in OtherWriters, ChangeSilently(writer)
        PROVE  TablesType'
    BY <2>3 DEF TablesType, ChangeSilently, Update
  <2>4. CASE Invalidate \/ InvalidateFails \/ Restart \/ Tick \/ UNCHANGED vars
    BY <2>4 DEF TablesType, tables, Invalidate, InvalidateFails, Restart, Tick,
      vars
  <2>5. QED
    BY <2>1, <2>2, <2>3, <2>4 DEF Next
<1>2. KeysType'
  <2>1. ASSUME NEW c \in Checkers, Begin(c) \/ Check(c)
        PROVE  KeysType'
    <3>1. seen[c] \in BOOLEAN
      BY DEF ChecksType
    <3>2. CASE SetWhitelistKey(c)
      BY <3>1, <3>2, EntryInKey DEF KeysType, SetWhitelistKey
    <3>3. CASE SetBlacklistKey(c)
      BY <3>1, <3>3, EntryInKey DEF KeysType, SetBlacklistKey
    <3>4. CASE \/ Begin(c) \/ GetWhitelistKey(c) \/ QueryWhitelist(c)
               \/ GetBlacklistKey(c) \/ QueryBlacklist(c)
      BY <3>4 DEF KeysType, keys, Begin, GetWhitelistKey, QueryWhitelist,
        GetBlacklistKey, QueryBlacklist
    <3>5. QED
      BY <2>1, <3>2, <3>3, <3>4 DEF Check
  <2>2. CASE Invalidate
    BY <2>2 DEF KeysType, keys, Invalidate, Key
  <2>3. CASE Tick
    BY <2>3, ExpireInKey DEF KeysType, Tick
  <2>4. CASE \/ \E isWhite, isListed \in BOOLEAN : Commit(isWhite, isListed)
             \/ \E writer \in OtherWriters : ChangeSilently(writer)
             \/ InvalidateFails \/ Restart \/ UNCHANGED vars
    BY <2>4 DEF KeysType, keys, Commit, ChangeSilently, InvalidateFails,
      Restart, vars
  <2>5. QED
    BY <2>1, <2>2, <2>3, <2>4 DEF Next
<1>3. ChecksType'
  <2>1. ASSUME NEW c \in Checkers, Begin(c) \/ Check(c)
        PROVE  ChecksType'
    <3>1. CASE Begin(c)
      <4>1. pc' \in [Checkers -> Locations]
        BY <3>1 DEF Begin, ChecksType, Locations
      <4>2. decision' \in [Checkers -> Answers]
        BY <3>1 DEF Begin, ChecksType, Answers
      <4>3. QED
        BY <3>1, <4>1, <4>2 DEF Begin, ChecksType
    <3>2. CASE Check(c)
      BY <3>2, CheckMoves, GoToChecks, StoreChecks, DecideChecks
      DEF Goes, Stores, Ends
    <3>3. QED
      BY <2>1, <3>1, <3>2
  <2>2. CASE Restart
    <3>1. pc' \in [Checkers -> Locations] /\ seen' \in [Checkers -> BOOLEAN]
      BY <2>2 DEF Restart, Locations
    <3>2. age' \in [Checkers -> 0 .. CheckTicks]
      BY <2>2, TtlAssumption DEF Restart
    <3>3. decision' \in [Checkers -> Answers]
      BY <2>2 DEF Restart, Answers
    <3>4. QED
      BY <3>1, <3>2, <3>3 DEF ChecksType
  <2>3. CASE Tick
    BY <2>3, TtlAssumption DEF Tick, ChecksType
  <2>4. CASE \/ \E isWhite, isListed \in BOOLEAN : Commit(isWhite, isListed)
             \/ \E writer \in OtherWriters : ChangeSilently(writer)
             \/ Invalidate \/ InvalidateFails \/ UNCHANGED vars
    BY <2>4 DEF ChecksType, checks, Commit, ChangeSilently, Invalidate,
      InvalidateFails, vars
  <2>5. QED
    BY <2>1, <2>2, <2>3, <2>4 DEF Next
<1>4. AgoType'
  <2> USE TtlAssumption DEF AgoType, Horizon, Lifetime
  <2>1. ASSUME NEW c \in Checkers, Begin(c) \/ Check(c)
        PROVE  AgoType'
    <3>1. ago' = ago \/ ago' = [ago EXCEPT !["lookupFailed"] = 0]
      BY <2>1, Zenon DEF history, Begin, Check, GetWhitelistKey,
        QueryWhitelist, SetWhitelistKey, GetBlacklistKey, QueryBlacklist,
        SetBlacklistKey
    <3>2. QED
      BY <3>1
  <2>2. CASE \/ \E isWhite, isListed \in BOOLEAN : Commit(isWhite, isListed)
             \/ \E writer \in OtherWriters : ChangeSilently(writer)
    BY <2>2 DEF Commit, ChangeSilently, Update
  <2>3. CASE Tick
    BY <2>3 DEF Tick
  <2>4. CASE Invalidate \/ InvalidateFails \/ Restart \/ UNCHANGED vars
    BY <2>4 DEF history, Invalidate, InvalidateFails, Restart, vars
  <2>5. QED
    BY <2>1, <2>2, <2>3, <2>4 DEF Next
<1>5. FlagsType'
  <2> USE DEF FlagsType, history
  <2>1. ASSUME NEW c \in Checkers, Begin(c) \/ Check(c)
        PROVE  FlagsType'
    BY <2>1, Zenon DEF Begin, Check, GetWhitelistKey, QueryWhitelist,
      SetWhitelistKey, GetBlacklistKey, QueryBlacklist, SetBlacklistKey
  <2>2. CASE \/ \E isWhite, isListed \in BOOLEAN : Commit(isWhite, isListed)
             \/ \E writer \in OtherWriters : ChangeSilently(writer)
             \/ Tick \/ UNCHANGED vars
    BY <2>2, Zenon DEF Commit, ChangeSilently, Tick, vars
  <2>3. CASE Invalidate \/ InvalidateFails \/ Restart
    BY <2>3, Zenon DEF Invalidate, InvalidateFails, Restart
  <2>4. QED
    BY <2>1, <2>2, <2>3 DEF Next
<1>6. BoundsType'
  <2> USE BoundAssumption DEF BoundsType, bounds
  <2>1. ASSUME NEW c \in Checkers, Begin(c) \/ Check(c)
        PROVE  BoundsType'
    <3>1. UNCHANGED writes /\ UNCHANGED changes
      BY <2>1, Zenon DEF Begin, Check, GetWhitelistKey, QueryWhitelist,
        SetWhitelistKey, GetBlacklistKey, QueryBlacklist, SetBlacklistKey
    <3>2. mishaps' = mishaps \/ \E fault \in {"redis", "database"} : Mishap(fault)
      BY <2>1, Zenon DEF Begin, Check, GetWhitelistKey, QueryWhitelist,
        SetWhitelistKey, GetBlacklistKey, QueryBlacklist, SetBlacklistKey
    <3>3. QED
      BY <3>1, <3>2 DEF Mishap
  <2>2. CASE \/ \E isWhite, isListed \in BOOLEAN : Commit(isWhite, isListed)
             \/ \E writer \in OtherWriters : ChangeSilently(writer)
    BY <2>2 DEF Commit, ChangeSilently, Update
  <2>3. CASE Invalidate \/ InvalidateFails \/ Restart \/ Tick \/ UNCHANGED vars
    BY <2>3 DEF Invalidate, InvalidateFails, Restart, Tick, vars, Mishap
  <2>4. QED
    BY <2>1, <2>2, <2>3 DEF Next
<1>7. QED
  BY <1>1, <1>2, <1>3, <1>4, <1>5, <1>6

(* Every variable stays in its type: no tick outlives CheckTicks, no key    *)
(* CacheTtl, no request the bound on changes.                               *)
THEOREM TypeCorrect == Spec => []TypeOK
<1>1. ASSUME TypeInv
      PROVE  TypeOK
  <2>1. writes \in 0 .. MaxChanges
    BY <1>1, BoundAssumption DEF TypeInv, BoundsType
  <2>2. QED
    BY <1>1, <2>1, Zenon DEF TypeInv, TypeOK, TablesType, KeysType, ChecksType,
      AgoType, FlagsType, BoundsType, Locations, Answers
<1>2. QED
  BY <1>1, InitTypeInv, NextTypeInv, PTL DEF Spec

-----------------------------------------------------------------------------
(* Undisturbed keys are exact *)

(* While only requests change the tables and none fails to delete its keys, *)
(* each key that exists says what its table says, between requests.  The    *)
(* property is inductive: what could break it either sets disturbed or      *)
(* raises writes, and the last invalidation deletes both keys.              *)
THEOREM UndisturbedKeysExact == Spec => []UndisturbedKeysAreExact
<1>1. Init => UndisturbedKeysAreExact
  BY DEF Init, UndisturbedKeysAreExact, Agrees, Absent
<1>2. ASSUME TypeInv, UndisturbedKeysAreExact, [Next]_vars
      PROVE  UndisturbedKeysAreExact'
  <2> SUFFICES ASSUME ~disturbed', writes' = 0
               PROVE  Agrees(whitelistKey, white)' /\ Agrees(blacklistKey, listed)'
    BY DEF UndisturbedKeysAreExact
  <2> USE <1>2
  <2>1. ASSUME writes = 0, ~disturbed, UNCHANGED <<tables, keys>>
        PROVE  Agrees(whitelistKey, white)' /\ Agrees(blacklistKey, listed)'
    BY <2>1 DEF UndisturbedKeysAreExact, Agrees, tables, keys
  <2>2. ASSUME NEW c \in Checkers, SetWhitelistKey(c)
        PROVE  Agrees(whitelistKey, white)' /\ Agrees(blacklistKey, listed)'
    <3>1. CASE UNCHANGED <<whitelistKey, disturbed>>
      BY <2>1, <2>2, <3>1 DEF SetWhitelistKey, keys
    <3>2. CASE /\ whitelistKey' = Entry(seen[c])
               /\ disturbed' = (disturbed \/ seen[c] # white)
      <4>1. ~disturbed /\ seen[c] = white
        BY <3>2, Zenon
      <4>2. UNCHANGED <<tables, writes, blacklistKey>>
        BY <2>2 DEF SetWhitelistKey
      <4>3. whitelistKey'.value = IF white THEN "true" ELSE "false"
        BY <3>2, <4>1 DEF Entry
      <4>4. QED
        BY <4>1, <4>2, <4>3 DEF UndisturbedKeysAreExact, Agrees, tables
    <3>3. QED
      BY <2>2, <3>1, <3>2 DEF SetWhitelistKey
  <2>3. ASSUME NEW c \in Checkers, SetBlacklistKey(c)
        PROVE  Agrees(whitelistKey, white)' /\ Agrees(blacklistKey, listed)'
    <3>1. CASE UNCHANGED <<blacklistKey, disturbed>>
      BY <2>1, <2>3, <3>1 DEF SetBlacklistKey, keys
    <3>2. CASE /\ blacklistKey' = Entry(seen[c])
               /\ disturbed' = (disturbed \/ seen[c] # listed)
      <4>1. ~disturbed /\ seen[c] = listed
        BY <3>2, Zenon
      <4>2. UNCHANGED <<tables, writes, whitelistKey>>
        BY <2>3 DEF SetBlacklistKey
      <4>3. blacklistKey'.value = IF listed THEN "true" ELSE "false"
        BY <3>2, <4>1 DEF Entry
      <4>4. QED
        BY <4>1, <4>2, <4>3 DEF UndisturbedKeysAreExact, Agrees, tables
    <3>3. QED
      BY <2>3, <3>1, <3>2 DEF SetBlacklistKey
  <2>4. ASSUME NEW c \in Checkers,
               \/ Begin(c) \/ GetWhitelistKey(c) \/ QueryWhitelist(c)
               \/ GetBlacklistKey(c) \/ QueryBlacklist(c)
        PROVE  Agrees(whitelistKey, white)' /\ Agrees(blacklistKey, listed)'
    <3>1. UNCHANGED <<tables, keys, writes, disturbed>>
      BY <2>4, Zenon DEF Begin, GetWhitelistKey, QueryWhitelist,
        GetBlacklistKey, QueryBlacklist, history
    <3>2. QED
      BY <2>1, <3>1
  <2>5. ASSUME NEW isWhite \in BOOLEAN, NEW isListed \in BOOLEAN,
               Commit(isWhite, isListed)
        PROVE  FALSE
    BY <2>5 DEF Commit, TypeInv, BoundsType
  <2>6. CASE Invalidate
    <3>1. caching
      BY <2>6, Zenon DEF Invalidate
    <3>2. whitelistKey' = Absent /\ blacklistKey' = Absent
      BY <2>6, <3>1 DEF Invalidate
    <3>3. QED
      BY <3>2 DEF Agrees, Absent
  <2>7. CASE InvalidateFails \/ \E writer \in OtherWriters : ChangeSilently(writer)
    BY <2>7 DEF InvalidateFails, ChangeSilently
  <2>8. CASE Restart
    <3>1. UNCHANGED <<tables, keys>> /\ ~disturbed /\ ~(writes > 0)
      BY <2>8, Zenon DEF Restart
    <3>2. writes = 0
      BY <3>1 DEF TypeInv, BoundsType
    <3>3. QED
      BY <2>1, <3>1, <3>2
  <2>9. CASE Tick
    <3>1. \A key \in Key : Expire(key).value \in {key.value, "none"}
      BY DEF Key, Expire, Absent
    <3>2. QED
      BY <2>9, <3>1 DEF Tick, UndisturbedKeysAreExact, Agrees, tables, TypeInv,
        KeysType
  <2>10. CASE UNCHANGED vars
    BY <2>1, <2>10 DEF vars, history
  <2>11. QED
    BY <2>2, <2>3, <2>4, <2>5, <2>6, <2>7, <2>8, <2>9, <2>10 DEF Next, Check
<1>3. QED
  BY <1>1, <1>2, InitTypeInv, NextTypeInv, PTL DEF Spec

-----------------------------------------------------------------------------
(* Answers are recent, and the whitelist outlives failures *)

(* A key says what was true when it had yet to be stored: the older the     *)
(* fact, the sooner the key expires.                                        *)
KeyBound(key, fact, opposite) ==
    /\ key.value = "true" => ago[fact] + key.ttl <= Lifetime
    /\ key.value = "false" => ago[opposite] + key.ttl <= Lifetime

KeysInv ==
    /\ KeyBound(whitelistKey, "white", "notWhite")
    /\ KeyBound(blacklistKey, "listed", "notListed")

AgoInv == \A fact \in Facts : Holds(fact) => ago[fact] = 0

(* What a check has seen was true since it began. *)
SeenInv(c) ==
    /\ pc[c] = "set whitelist" =>
         /\ seen[c] => ago["white"] <= age[c]
         /\ ~seen[c] => ago["notWhite"] <= age[c]
    /\ pc[c] = "set blacklist" =>
         /\ seen[c] => ago["listed"] <= age[c]
         /\ ~seen[c] => ago["notListed"] <= age[c]

(* A check that has passed the whitelist had a reason to. *)
PassedInv(c) ==
    pc[c] \in {"get blacklist", "query blacklist", "set blacklist"} =>
        \/ ago["notWhite"] <= Lifetime + age[c]
        \/ ago["lookupFailed"] <= age[c]

IInv ==
    /\ TypeInv
    /\ KeysInv
    /\ AgoInv
    /\ \A c \in Checkers : SeenInv(c) /\ PassedInv(c)

LEMMA InitIInv == Init => IInv
<1> SUFFICES ASSUME Init
             PROVE  IInv
  OBVIOUS
<1>1. KeysInv
  BY DEF Init, KeysInv, KeyBound, Absent
<1>2. AgoInv
  BY DEF Init, AgoInv
<1>3. \A c \in Checkers : SeenInv(c) /\ PassedInv(c)
  BY DEF Init, SeenInv, PassedInv
<1>4. QED
  BY <1>1, <1>2, <1>3, InitTypeInv DEF IInv

LEMMA HoldingFacts ==
  ASSUME AgoInv
  PROVE  /\ white => ago["white"] = 0
         /\ ~white => ago["notWhite"] = 0
         /\ listed => ago["listed"] = 0
         /\ ~listed => ago["notListed"] = 0
BY Zenon DEF AgoInv, Holds, Facts

(* A check that takes no step stays where it is. *)
LEMMA OthersStay ==
  ASSUME TypeInv, NEW c \in Checkers, NEW d \in Checkers, c # d,
         Begin(d) \/ Check(d)
  PROVE  pc'[c] = pc[c] /\ seen'[c] = seen[c] /\ age'[c] = age[c]
<1>1. CASE Begin(d)
  BY <1>1 DEF Begin, TypeInv, ChecksType
<1>2. CASE Goes(d) \/ Stores(d) \/ Ends(d)
  BY <1>2 DEF Goes, Stores, Ends, GoTo, Store, Decide, TypeInv, ChecksType
<1>3. QED
  BY <1>1, <1>2, CheckMoves DEF TypeInv

(* Only a tick moves a fact into the past, and by one. *)
LEMMA ChecksKeepAgo ==
  ASSUME NEW c \in Checkers, Begin(c) \/ Check(c)
  PROVE  UNCHANGED tables
         /\ (ago' = ago \/ ago' = [ago EXCEPT !["lookupFailed"] = 0])
BY Zenon DEF history, Begin, Check, GetWhitelistKey, QueryWhitelist,
  SetWhitelistKey, GetBlacklistKey, QueryBlacklist, SetBlacklistKey

LEMMA AgoMoves ==
  ASSUME TypeInv, AgoInv, [Next]_vars, NEW fact \in Facts
  PROVE  /\ ago[fact] \in Nat /\ ago'[fact] \in Nat
         /\ ago'[fact] <= ago[fact] + 1
         /\ ~Tick => ago'[fact] <= ago[fact]
<1> USE TtlAssumption
<1>1. ago \in [Facts -> Nat] /\ ago' \in [Facts -> Nat]
  BY NextTypeInv DEF TypeInv, AgoType, Horizon, Lifetime
<1>2. ASSUME NEW c \in Checkers, Begin(c) \/ Check(c)
      PROVE  ago'[fact] <= ago[fact]
  BY <1>1, <1>2, ChecksKeepAgo
<1>3. ASSUME NEW isWhite \in BOOLEAN, NEW isListed \in BOOLEAN,
             Update(isWhite, isListed)
      PROVE  ago'[fact] <= ago[fact]
  BY <1>1, <1>3 DEF Update
<1>4. CASE Tick
  BY <1>1, <1>4 DEF Tick, AgoInv
<1>5. CASE Invalidate \/ InvalidateFails \/ Restart \/ UNCHANGED vars
  BY <1>1, <1>5 DEF Invalidate, InvalidateFails, Restart, vars, history
<1>6. ASSUME NEW writer \in OtherWriters, ChangeSilently(writer)
      PROVE  ago'[fact] <= ago[fact]
  BY <1>3, <1>6 DEF ChangeSilently, TypeInv, TablesType
<1>7. QED
  BY <1>1, <1>2, <1>3, <1>4, <1>5, <1>6 DEF Next, Commit

LEMMA NextAgoInv ==
  ASSUME TypeInv, AgoInv, [Next]_vars
  PROVE  AgoInv'
<1> USE DEF AgoInv
<1>1. ASSUME NEW c \in Checkers, Begin(c) \/ Check(c)
      PROVE  AgoInv'
  BY <1>1, ChecksKeepAgo DEF tables, Holds, TypeInv, AgoType, Facts
<1>2. ASSUME NEW isWhite \in BOOLEAN, NEW isListed \in BOOLEAN,
             Update(isWhite, isListed)
      PROVE  AgoInv'
  BY <1>2 DEF Update
<1>3. CASE Tick
  BY <1>3 DEF Tick, tables, Holds
<1>4. CASE Invalidate \/ InvalidateFails \/ Restart \/ UNCHANGED vars
  BY <1>4 DEF Invalidate, InvalidateFails, Restart, vars, tables, history, Holds
<1>5. ASSUME NEW writer \in OtherWriters, ChangeSilently(writer)
      PROVE  AgoInv'
  BY <1>2, <1>5 DEF ChangeSilently, TypeInv, TablesType
<1>6. QED
  BY <1>1, <1>2, <1>3, <1>4, <1>5 DEF Next, Commit

LEMMA NextKeyBound ==
  ASSUME IInv, [Next]_vars, NEW key \in Key, NEW fact \in Facts,
         NEW opposite \in Facts, KeyBound(key, fact, opposite),
         NEW newKey \in Key,
         newKey = Absent \/ (~Tick /\ newKey = key) \/ newKey = Expire(key)
  PROVE  /\ newKey.value = "true" => ago'[fact] + newKey.ttl <= Lifetime
         /\ newKey.value = "false" => ago'[opposite] + newKey.ttl <= Lifetime
<1> USE TtlAssumption DEF Lifetime
<1>1. /\ ago[fact] \in Nat /\ ago'[fact] \in Nat
      /\ ago'[fact] <= ago[fact] + 1
      /\ ~Tick => ago'[fact] <= ago[fact]
  BY AgoMoves DEF IInv
<1>2. /\ ago[opposite] \in Nat /\ ago'[opposite] \in Nat
      /\ ago'[opposite] <= ago[opposite] + 1
      /\ ~Tick => ago'[opposite] <= ago[opposite]
  BY AgoMoves DEF IInv
<1>3. CASE newKey = Absent
  BY <1>3 DEF Absent
<1>4. CASE ~Tick /\ newKey = key /\ newKey # Absent
  BY <1>1, <1>2, <1>4 DEF KeyBound, Key
<1>5. CASE newKey = Expire(key) /\ newKey # Absent
  <2>1. key.ttl \in Nat /\ key.ttl > 1
    BY <1>5 DEF Key, Expire, Absent
  <2>2. newKey.value = key.value /\ newKey.ttl = key.ttl - 1
    BY <1>5, <2>1 DEF Key, Expire, Absent
  <2>3. QED
    BY <1>1, <1>2, <2>1, <2>2 DEF KeyBound
<1>6. QED
  BY <1>3, <1>4, <1>5

LEMMA NextKeysInv ==
  ASSUME IInv, [Next]_vars
  PROVE  KeysInv'
<1>1. KeysType /\ KeysType'
  BY NextTypeInv DEF IInv, TypeInv
<1>2. ASSUME /\ whitelistKey' = Absent \/ (~Tick /\ whitelistKey' = whitelistKey)
                \/ whitelistKey' = Expire(whitelistKey)
      PROVE  KeyBound(whitelistKey, "white", "notWhite")'
  BY <1>1, <1>2, NextKeyBound DEF IInv, KeysInv, KeysType, KeyBound, Facts
<1>3. ASSUME /\ blacklistKey' = Absent \/ (~Tick /\ blacklistKey' = blacklistKey)
                \/ blacklistKey' = Expire(blacklistKey)
      PROVE  KeyBound(blacklistKey, "listed", "notListed")'
  BY <1>1, <1>3, NextKeyBound DEF IInv, KeysInv, KeysType, KeyBound, Facts
<1>4. CASE Tick
  BY <1>2, <1>3, <1>4 DEF Tick, KeysInv
<1>5. ASSUME UNCHANGED keys, ~Tick
      PROVE  KeysInv'
  BY <1>2, <1>3, <1>5 DEF keys, KeysInv
<1>6. ASSUME NEW c \in Checkers, SetWhitelistKey(c), ~Tick
      PROVE  KeysInv'
  <2>1. CASE UNCHANGED whitelistKey
    BY <1>5, <1>6, <2>1 DEF SetWhitelistKey, keys
  <2>2. CASE whitelistKey' = Entry(seen[c])
    <3>1. /\ whitelistKey'.value = IF seen[c] THEN "true" ELSE "false"
          /\ whitelistKey'.ttl = CacheTtl
      BY <2>2 DEF Entry
    <3>2. UNCHANGED <<ago, blacklistKey>>
      BY <1>6 DEF SetWhitelistKey
    <3>3. /\ seen[c] => ago["white"] <= age[c]
          /\ ~seen[c] => ago["notWhite"] <= age[c]
      BY <1>6 DEF IInv, SeenInv, SetWhitelistKey
    <3>4. age[c] \in 0 .. CheckTicks /\ ago \in [Facts -> Nat]
      BY TtlAssumption
      DEF IInv, TypeInv, ChecksType, AgoType, Horizon, Lifetime
    <3>5. KeyBound(whitelistKey, "white", "notWhite")'
      BY <3>1, <3>2, <3>3, <3>4, TtlAssumption DEF KeyBound, Lifetime, Facts
    <3>6. KeyBound(blacklistKey, "listed", "notListed")'
      BY <1>3, <1>6, <3>2
    <3>7. QED
      BY <3>5, <3>6 DEF KeysInv
  <2>3. QED
    BY <1>6, <2>1, <2>2 DEF SetWhitelistKey
<1>7. ASSUME NEW c \in Checkers, SetBlacklistKey(c), ~Tick
      PROVE  KeysInv'
  <2>1. CASE UNCHANGED blacklistKey
    BY <1>5, <1>7, <2>1 DEF SetBlacklistKey, keys
  <2>2. CASE blacklistKey' = Entry(seen[c])
    <3>1. /\ blacklistKey'.value = IF seen[c] THEN "true" ELSE "false"
          /\ blacklistKey'.ttl = CacheTtl
      BY <2>2 DEF Entry
    <3>2. UNCHANGED <<ago, whitelistKey>>
      BY <1>7 DEF SetBlacklistKey
    <3>3. /\ seen[c] => ago["listed"] <= age[c]
          /\ ~seen[c] => ago["notListed"] <= age[c]
      BY <1>7 DEF IInv, SeenInv, SetBlacklistKey
    <3>4. age[c] \in 0 .. CheckTicks /\ ago \in [Facts -> Nat]
      BY TtlAssumption
      DEF IInv, TypeInv, ChecksType, AgoType, Horizon, Lifetime
    <3>5. KeyBound(blacklistKey, "listed", "notListed")'
      BY <3>1, <3>2, <3>3, <3>4, TtlAssumption DEF KeyBound, Lifetime, Facts
    <3>6. KeyBound(whitelistKey, "white", "notWhite")'
      BY <1>2, <1>7, <3>2
    <3>7. QED
      BY <3>5, <3>6 DEF KeysInv
  <2>3. QED
    BY <1>7, <2>1, <2>2 DEF SetBlacklistKey
<1>8. ASSUME NEW c \in Checkers, ~Tick,
             \/ Begin(c) \/ GetWhitelistKey(c) \/ QueryWhitelist(c)
             \/ GetBlacklistKey(c) \/ QueryBlacklist(c)
      PROVE  KeysInv'
  BY <1>5, <1>8 DEF Begin, GetWhitelistKey, QueryWhitelist, GetBlacklistKey,
    QueryBlacklist
<1>9. CASE Invalidate /\ ~Tick
  <2>1. \/ UNCHANGED keys
        \/ whitelistKey' = Absent /\ blacklistKey' = Absent
    BY <1>9 DEF Invalidate
  <2>2. QED
    BY <1>2, <1>3, <1>5, <1>9, <2>1 DEF KeysInv
<1>10. CASE /\ ~Tick
            /\ \/ \E isWhite, isListed \in BOOLEAN : Commit(isWhite, isListed)
               \/ \E writer \in OtherWriters : ChangeSilently(writer)
               \/ InvalidateFails \/ Restart \/ UNCHANGED vars
  BY <1>5, <1>10 DEF Commit, ChangeSilently, InvalidateFails, Restart, vars
<1>11. QED
  BY <1>4, <1>6, <1>7, <1>8, <1>9, <1>10 DEF Next, Check

(* What a check has seen stays true of the time since it began. *)
LEMMA NextSeenInv ==
  ASSUME IInv, [Next]_vars, NEW c \in Checkers
  PROVE  SeenInv(c)'
<1>1. /\ age[c] \in 0 .. CheckTicks
      /\ ago \in [Facts -> Nat] /\ ago' \in [Facts -> Nat]
      /\ SeenInv(c) /\ seen[c] \in BOOLEAN
  BY NextTypeInv, TtlAssumption
  DEF IInv, TypeInv, ChecksType, AgoType, Horizon, Lifetime
<1>2. \A fact \in Facts : /\ ago'[fact] <= ago[fact] + 1
                          /\ ~Tick => ago'[fact] <= ago[fact]
  BY AgoMoves DEF IInv
<1>3. ASSUME pc'[c] = pc[c], seen'[c] = seen[c], age'[c] = age[c], ~Tick
      PROVE  SeenInv(c)'
  <2>1. \A fact \in Facts : ago[fact] <= age[c] => ago'[fact] <= age'[c]
    BY <1>1, <1>2, <1>3, TtlAssumption
  <2>2. QED
    BY <1>1, <1>3, <2>1, Zenon DEF SeenInv, Facts
<1>4. ASSUME pc'[c] \notin {"set whitelist", "set blacklist"}
      PROVE  SeenInv(c)'
  BY <1>4 DEF SeenInv
<1>5. CASE Tick
  <2>1. /\ UNCHANGED <<pc, seen>>
        /\ pc[c] # "idle" => age'[c] = age[c] + 1
    BY <1>5 DEF Tick
  <2>2. ASSUME NEW fact \in Facts, pc[c] # "idle", ago[fact] <= age[c]
        PROVE  ago'[fact] <= age'[c]
    BY <1>1, <1>2, <2>1, <2>2, TtlAssumption
  <2>3. QED
    BY <1>1, <2>1, <2>2, Zenon DEF SeenInv, Facts
<1>6. ASSUME NEW d \in Checkers, d # c, Begin(d) \/ Check(d), ~Tick
      PROVE  SeenInv(c)'
  BY <1>3, <1>6, OthersStay DEF IInv
<1>7. ASSUME \/ Begin(c) \/ GetWhitelistKey(c) \/ SetWhitelistKey(c)
             \/ GetBlacklistKey(c) \/ SetBlacklistKey(c)
      PROVE  SeenInv(c)'
  <2>1. pc \in [Checkers -> Locations]
    BY DEF IInv, TypeInv, ChecksType
  <2>2. QED
    BY <1>4, <1>7, <2>1 DEF Begin, GetWhitelistKey, SetWhitelistKey,
      GetBlacklistKey, SetBlacklistKey, GoTo, Decide
<1>8. ASSUME QueryWhitelist(c)
      PROVE  SeenInv(c)'
  <2>1. CASE Store(c, "set whitelist", white) /\ UNCHANGED ago
    <3>1. pc'[c] = "set whitelist" /\ seen'[c] = white /\ age'[c] = age[c]
      BY <2>1 DEF Store, IInv, TypeInv, ChecksType
    <3>2. (white => ago["white"] <= age[c]) /\ (~white => ago["notWhite"] <= age[c])
      BY <1>1, HoldingFacts, TtlAssumption DEF IInv
    <3>3. (seen'[c] => ago'["white"] <= age'[c])
          /\ (~seen'[c] => ago'["notWhite"] <= age'[c])
      <4>1. UNCHANGED ago
        BY <2>1
      <4>2. CASE white
        BY <3>1, <3>2, <4>1, <4>2
      <4>3. CASE ~white
        BY <3>1, <3>2, <4>1, <4>3
      <4>4. QED
        BY <4>2, <4>3
    <3>4. pc'[c] # "set blacklist"
      BY <3>1
    <3>5. QED
      BY <3>3, <3>4, Zenon DEF SeenInv
  <2>2. CASE GoTo(c, "get blacklist")
    BY <1>4, <2>2 DEF GoTo, IInv, TypeInv, ChecksType
  <2>3. QED
    BY <1>8, <2>1, <2>2 DEF QueryWhitelist
<1>9. ASSUME QueryBlacklist(c)
      PROVE  SeenInv(c)'
  <2>1. CASE Store(c, "set blacklist", listed)
    <3>1. pc'[c] = "set blacklist" /\ seen'[c] = listed /\ age'[c] = age[c]
      BY <2>1 DEF Store, IInv, TypeInv, ChecksType
    <3>2. (listed => ago["listed"] <= age[c]) /\ (~listed => ago["notListed"] <= age[c])
      BY <1>1, HoldingFacts, TtlAssumption DEF IInv
    <3>3. (seen'[c] => ago'["listed"] <= age'[c])
          /\ (~seen'[c] => ago'["notListed"] <= age'[c])
      <4>1. UNCHANGED ago
        BY <1>9 DEF QueryBlacklist, history
      <4>2. CASE listed
        BY <3>1, <3>2, <4>1, <4>2
      <4>3. CASE ~listed
        BY <3>1, <3>2, <4>1, <4>3
      <4>4. QED
        BY <4>2, <4>3
    <3>4. pc'[c] # "set whitelist"
      BY <3>1
    <3>5. QED
      BY <3>3, <3>4, Zenon DEF SeenInv
  <2>2. CASE Decide(c, "error")
    BY <1>4, <2>2 DEF Decide, IInv, TypeInv, ChecksType
  <2>3. QED
    BY <1>9, <2>1, <2>2 DEF QueryBlacklist
<1>10. CASE Restart
  BY <1>4, <1>10 DEF Restart
<1>11. CASE /\ ~Tick
            /\ \/ \E isWhite, isListed \in BOOLEAN : Commit(isWhite, isListed)
               \/ \E writer \in OtherWriters : ChangeSilently(writer)
               \/ Invalidate \/ InvalidateFails \/ UNCHANGED vars
  BY <1>3, <1>11 DEF Commit, ChangeSilently, Invalidate, InvalidateFails, vars,
    checks
<1>12. QED
  BY <1>5, <1>6, <1>7, <1>8, <1>9, <1>10, <1>11 DEF Next, Check

(* A check passes the whitelist only with a reason, and the reason lasts. *)
LEMMA NextPassedInv ==
  ASSUME IInv, [Next]_vars, NEW c \in Checkers
  PROVE  PassedInv(c)'
<1> DEFINE Reason == \/ ago["notWhite"] <= Lifetime + age[c]
                     \/ ago["lookupFailed"] <= age[c]
           Passed == {"get blacklist", "query blacklist", "set blacklist"}
<1> USE TtlAssumption
<1>1. age[c] \in Nat /\ Lifetime \in Nat /\ pc \in [Checkers -> Locations]
  BY DEF IInv, TypeInv, ChecksType, Lifetime
<1>2. \A fact \in {"notWhite", "lookupFailed"} :
        /\ ago[fact] \in Nat /\ ago'[fact] \in Nat
        /\ ago'[fact] <= ago[fact] + 1
        /\ ~Tick => ago'[fact] <= ago[fact]
  BY AgoMoves DEF IInv, Facts
<1>3. Lifetime' = Lifetime
  BY DEF Lifetime
<1>4. pc[c] \in Passed => Reason
  BY DEF IInv, PassedInv
<1>5. ASSUME age'[c] = age[c], ~Tick, Reason
      PROVE  PassedInv(c)'
  <2>1. CASE ago["notWhite"] <= Lifetime + age[c]
    <3>1. ago'["notWhite"] <= Lifetime' + age'[c]
      BY <1>1, <1>2, <1>3, <1>5, <2>1
    <3>2. QED
      BY <3>1 DEF PassedInv
  <2>2. CASE ago["lookupFailed"] <= age[c]
    <3>1. ago'["lookupFailed"] <= age'[c]
      BY <1>1, <1>2, <1>5, <2>2
    <3>2. QED
      BY <3>1 DEF PassedInv
  <2>3. QED
    BY <1>5, <2>1, <2>2
<1>6. ASSUME pc'[c] \notin Passed
      PROVE  PassedInv(c)'
  BY <1>6 DEF PassedInv
<1>7. CASE Tick
  <2>1. pc' = pc /\ (pc[c] # "idle" => age'[c] = age[c] + 1)
    BY <1>7 DEF Tick
  <2>2. ASSUME pc[c] \in Passed
        PROVE  Reason'
    <3>1. age'[c] = age[c] + 1 /\ Reason
      BY <1>4, <2>1, <2>2
    <3>2. CASE ago["notWhite"] <= Lifetime + age[c]
      BY <1>1, <1>2, <1>3, <3>1, <3>2
    <3>3. CASE ago["lookupFailed"] <= age[c]
      BY <1>1, <1>2, <3>1, <3>3
    <3>4. QED
      BY <3>1, <3>2, <3>3
  <2>3. QED
    BY <2>1, <2>2 DEF PassedInv
<1>8. ASSUME pc'[c] = pc[c], age'[c] = age[c], ~Tick
      PROVE  PassedInv(c)'
  BY <1>4, <1>5, <1>6, <1>8
<1>9. ASSUME NEW d \in Checkers, d # c, Begin(d) \/ Check(d), ~Tick
      PROVE  PassedInv(c)'
  BY <1>8, <1>9, OthersStay DEF IInv
<1>10. CASE Begin(c)
  BY <1>1, <1>6, <1>10 DEF Begin
<1>11. ASSUME GetWhitelistKey(c), ~Tick
       PROVE  PassedInv(c)'
  <2>1. CASE Decide(c, "whitelisted") \/ GoTo(c, "query whitelist")
    BY <1>1, <1>6, <2>1 DEF Decide, GoTo
  <2>2. CASE whitelistKey.value = "false" /\ GoTo(c, "get blacklist")
    <3>1. whitelistKey.ttl \in Nat
      <4>1. whitelistKey \in Key
        BY DEF IInv, TypeInv, KeysType
      <4>2. QED
        BY <4>1 DEF Key, Absent
    <3>2. Reason
      <4>1. ago["notWhite"] + whitelistKey.ttl <= Lifetime
        BY <2>2 DEF IInv, KeysInv, KeyBound
      <4>2. QED
        BY <1>1, <1>2, <3>1, <4>1
    <3>3. QED
      BY <1>5, <1>11, <2>2, <3>2 DEF GoTo
  <2>3. QED
    BY <1>11, <2>1, <2>2 DEF GetWhitelistKey
<1>12. ASSUME QueryWhitelist(c)
       PROVE  PassedInv(c)'
  <2>1. CASE Store(c, "set whitelist", white)
    BY <1>1, <1>6, <2>1 DEF Store
  <2>2. CASE /\ ago' = [ago EXCEPT !["lookupFailed"] = 0]
             /\ GoTo(c, "get blacklist")
    <3>1. ago'["lookupFailed"] <= age'[c]
      <4>1. ago'["lookupFailed"] = 0
        BY <2>2 DEF IInv, TypeInv, AgoType, Facts
      <4>2. age'[c] = age[c]
        BY <2>2 DEF GoTo
      <4>3. QED
        BY <1>1, <4>1, <4>2
    <3>2. QED
      BY <3>1 DEF PassedInv
  <2>3. QED
    BY <1>12, <2>1, <2>2 DEF QueryWhitelist
<1>13. ASSUME SetWhitelistKey(c), ~Tick
       PROVE  PassedInv(c)'
  <2>1. CASE seen[c]
    <3>1. Decide(c, "whitelisted")
      BY <1>13, <2>1 DEF SetWhitelistKey
    <3>2. QED
      BY <1>1, <1>6, <3>1 DEF Decide
  <2>2. CASE ~seen[c]
    <3>1. GoTo(c, "get blacklist")
      BY <1>13, <2>2 DEF SetWhitelistKey
    <3>2. ago["notWhite"] <= age[c]
      BY <1>13, <2>2, Zenon DEF SetWhitelistKey, IInv, SeenInv
    <3>3. Reason
      BY <1>1, <1>2, <3>2
    <3>4. QED
      BY <1>5, <1>13, <3>1, <3>3 DEF GoTo
  <2>3. QED
    BY <2>1, <2>2
<1>14. ASSUME GetBlacklistKey(c) \/ QueryBlacklist(c) \/ SetBlacklistKey(c), ~Tick
       PROVE  PassedInv(c)'
  <2>1. pc[c] \in Passed
    BY <1>14 DEF GetBlacklistKey, QueryBlacklist, SetBlacklistKey
  <2>2. CASE age'[c] = age[c]
    BY <1>4, <1>5, <1>14, <2>1, <2>2
  <2>3. CASE pc'[c] = "idle"
    BY <1>6, <2>3
  <2>4. Goes(c) \/ Stores(c) \/ Ends(c)
    BY <1>14, CheckMoves DEF Check, IInv, TypeInv
  <2>5. QED
    BY <1>1, <2>2, <2>3, <2>4 DEF Goes, Stores, Ends, GoTo, Store, Decide
<1>15. CASE Restart
  BY <1>6, <1>15 DEF Restart
<1>16. CASE /\ ~Tick
            /\ \/ \E isWhite, isListed \in BOOLEAN : Commit(isWhite, isListed)
               \/ \E writer \in OtherWriters : ChangeSilently(writer)
               \/ Invalidate \/ InvalidateFails \/ UNCHANGED vars
  BY <1>8, <1>16 DEF Commit, ChangeSilently, Invalidate, InvalidateFails, vars,
    checks
<1>17. QED
  BY <1>7, <1>9, <1>10, <1>11, <1>12, <1>13, <1>14, <1>15, <1>16
  DEF Next, Check

LEMMA NextIInv ==
  ASSUME IInv, [Next]_vars
  PROVE  IInv'
<1>1. TypeInv' /\ KeysInv' /\ AgoInv'
  BY NextTypeInv, NextKeysInv, NextAgoInv DEF IInv
<1>2. \A c \in Checkers : SeenInv(c)' /\ PassedInv(c)'
  BY NextSeenInv, NextPassedInv
<1>3. QED
  BY <1>1, <1>2 DEF IInv

(* Only a check that decides, or the end of the process, brings a check to  *)
(* rest; the end of the process answers nothing.                            *)
LEMMA WhoDecides ==
  ASSUME IInv, [Next]_vars, NEW c \in Checkers, Decides(c)
  PROVE  \/ decision'[c] = "none"
         \/ (GetWhitelistKey(c) \/ SetWhitelistKey(c)) /\ decision'[c] = "whitelisted"
         \/ GetBlacklistKey(c) /\ Decide(c, IF blacklistKey.value = "true"
                                            THEN "blocked" ELSE "clean")
         \/ QueryBlacklist(c) /\ decision'[c] = "error"
         \/ SetBlacklistKey(c) /\ Decide(c, IF seen[c] THEN "blocked" ELSE "clean")
<1>1. pc \in [Checkers -> Locations] /\ decision \in [Checkers -> Answers]
  BY DEF IInv, TypeInv, ChecksType
<1>2. pc[c] # "idle" /\ pc'[c] = "idle"
  BY DEF Decides
<1>3. ASSUME NEW answer, Decide(c, answer)
      PROVE  decision'[c] = answer
  BY <1>1, <1>3 DEF Decide
<1>4. ASSUME NEW place, place # "idle", GoTo(c, place)
      PROVE  FALSE
  BY <1>1, <1>2, <1>4 DEF GoTo
<1>5. ASSUME NEW place, NEW found, place # "idle", Store(c, place, found)
      PROVE  FALSE
  BY <1>1, <1>2, <1>5 DEF Store
<1>6. ~Begin(c)
  BY <1>2 DEF Begin
<1>7. ASSUME GetWhitelistKey(c)
      PROVE  decision'[c] = "whitelisted"
  BY <1>3, <1>4, <1>7 DEF GetWhitelistKey
<1>8. ~QueryWhitelist(c)
  BY <1>4, <1>5 DEF QueryWhitelist
<1>9. ASSUME SetWhitelistKey(c)
      PROVE  decision'[c] = "whitelisted"
  BY <1>3, <1>4, <1>9 DEF SetWhitelistKey
<1>10. ASSUME GetBlacklistKey(c)
       PROVE  Decide(c, IF blacklistKey.value = "true" THEN "blocked" ELSE "clean")
  BY <1>4, <1>10 DEF GetBlacklistKey
<1>11. ASSUME QueryBlacklist(c)
       PROVE  decision'[c] = "error"
  BY <1>3, <1>5, <1>11 DEF QueryBlacklist
<1>12. ASSUME SetBlacklistKey(c)
       PROVE  Decide(c, IF seen[c] THEN "blocked" ELSE "clean")
  BY <1>12 DEF SetBlacklistKey
<1>13. ASSUME NEW d \in Checkers, d # c, Begin(d) \/ Check(d)
       PROVE  FALSE
  BY <1>2, <1>13, OthersStay DEF IInv
<1>14. CASE Restart
  BY <1>14 DEF Restart
<1>15. CASE UNCHANGED pc
  BY <1>2, <1>15
<1>16. CASE \/ \E isWhite, isListed \in BOOLEAN : Commit(isWhite, isListed)
            \/ \E writer \in OtherWriters : ChangeSilently(writer)
            \/ Invalidate \/ InvalidateFails \/ Tick \/ UNCHANGED vars
  BY <1>15, <1>16 DEF Commit, ChangeSilently, Invalidate, InvalidateFails, Tick,
    vars, checks
<1>17. QED
  BY <1>6, <1>7, <1>8, <1>9, <1>10, <1>11, <1>12, <1>13, <1>14, <1>16
  DEF Next, Check

(* What the keys and the checks say, in the terms of Recent. *)
LEMMA Bounds ==
  ASSUME IInv, NEW c \in Checkers
  PROVE  /\ whitelistKey.value = "true" => ago["white"] <= Lifetime
         /\ blacklistKey.value = "true" => ago["listed"] <= Lifetime
         /\ blacklistKey.value = "false" => ago["notListed"] <= Lifetime
         /\ pc[c] = "set whitelist" /\ seen[c] => ago["white"] <= Lifetime
         /\ pc[c] = "set blacklist" /\ seen[c] => ago["listed"] <= Lifetime
         /\ pc[c] = "set blacklist" /\ ~seen[c] => ago["notListed"] <= Lifetime
<1> USE TtlAssumption DEF Lifetime
<1>1. \A fact \in Facts : ago[fact] \in Nat
  BY DEF IInv, TypeInv, AgoType, Horizon
<1>2. whitelistKey.ttl \in Nat /\ blacklistKey.ttl \in Nat
  <2>1. \A key \in Key : key.ttl \in Nat
    BY DEF Key, Absent
  <2>2. QED
    BY <2>1 DEF IInv, TypeInv, KeysType
<1>3. age[c] \in 0 .. CheckTicks
  BY DEF IInv, TypeInv, ChecksType
<1>4. /\ whitelistKey.value = "true" => ago["white"] <= Lifetime
      /\ blacklistKey.value = "true" => ago["listed"] <= Lifetime
      /\ blacklistKey.value = "false" => ago["notListed"] <= Lifetime
  BY <1>1, <1>2 DEF IInv, KeysInv, KeyBound, Facts
<1>5. ASSUME NEW fact \in Facts, ago[fact] <= age[c]
      PROVE  ago[fact] <= Lifetime
  BY <1>1, <1>3, <1>5
<1>6. /\ pc[c] = "set whitelist" /\ seen[c] => ago["white"] <= age[c]
      /\ pc[c] = "set blacklist" /\ seen[c] => ago["listed"] <= age[c]
      /\ pc[c] = "set blacklist" /\ ~seen[c] => ago["notListed"] <= age[c]
  BY Zenon DEF IInv, SeenInv
<1>7. QED
  BY <1>4, <1>5, <1>6, Zenon DEF Facts

(* No check answers what has not been true within Lifetime, for any number  *)
(* of checks, any interleaving with requests, jobs, failures and restarts.  *)
THEOREM DecisionsRecent == Spec => DecisionsAreRecent
<1>1. ASSUME IInv, [Next]_vars, NEW c \in Checkers, Decides(c)
      PROVE  Recent(decision'[c])
  <2> USE <1>1
  <2>1. decision \in [Checkers -> Answers]
    BY DEF IInv, TypeInv, ChecksType
  <2>2. CASE decision'[c] \in {"none", "error"}
    BY <2>2 DEF Recent
  <2>3. CASE GetWhitelistKey(c) /\ decision'[c] = "whitelisted"
    <3>1. whitelistKey.value = "true"
      BY <1>1, <2>3 DEF GetWhitelistKey, GoTo, Decides, IInv, TypeInv, ChecksType
    <3>2. QED
      BY <2>3, <3>1, Bounds DEF Recent
  <2>4. CASE SetWhitelistKey(c) /\ decision'[c] = "whitelisted"
    <3>1. pc[c] = "set whitelist"
      BY <2>4 DEF SetWhitelistKey
    <3>2. CASE seen[c]
      BY <2>4, <3>1, <3>2, Bounds DEF Recent
    <3>3. CASE ~seen[c]
      <4>1. GoTo(c, "get blacklist")
        BY <2>4, <3>3 DEF SetWhitelistKey
      <4>2. QED
        BY <4>1 DEF GoTo, Decides, IInv, TypeInv, ChecksType
    <3>4. QED
      BY <3>2, <3>3
  <2>5. CASE GetBlacklistKey(c) /\ Decide(c, IF blacklistKey.value = "true"
                                            THEN "blocked" ELSE "clean")
    <3>1. decision'[c] = IF blacklistKey.value = "true" THEN "blocked" ELSE "clean"
      BY <2>1, <2>5 DEF Decide
    <3>2. blacklistKey.value \in {"true", "false"}
      <4>1. pc'[c] = "idle"
        BY DEF Decides
      <4>2. blacklistKey # Absent
        BY <2>5, <4>1 DEF GetBlacklistKey, GoTo, IInv, TypeInv, ChecksType
      <4>3. QED
        BY <4>2 DEF IInv, TypeInv, KeysType, Key
    <3>3. QED
      BY <3>1, <3>2, Bounds DEF Recent
  <2>6. CASE SetBlacklistKey(c) /\ Decide(c, IF seen[c] THEN "blocked" ELSE "clean")
    <3>1. pc[c] = "set blacklist"
      BY <2>6 DEF SetBlacklistKey
    <3>2. CASE seen[c]
      <4>1. decision'[c] = "blocked"
        BY <2>1, <2>6, <3>2 DEF Decide
      <4>2. QED
        BY <3>1, <3>2, <4>1, Bounds DEF Recent
    <3>3. CASE ~seen[c]
      <4>1. decision'[c] = "clean"
        BY <2>1, <2>6, <3>3 DEF Decide
      <4>2. QED
        BY <3>1, <3>3, <4>1, Bounds DEF Recent
    <3>4. QED
      BY <3>2, <3>3
  <2>7. QED
    BY <2>2, <2>3, <2>4, <2>5, <2>6, WhoDecides
<1>2. IInv /\ [Next]_vars =>
        [\A c \in Checkers : Decides(c) => Recent(decision'[c])]_vars
  BY <1>1
<1>3. QED
  BY <1>2, InitIInv, NextIInv, PTL DEF Spec, DecisionsAreRecent

(* An address that has been whitelisted for longer than Horizon is blocked  *)
(* only by a check whose own lookup of the whitelist failed.                *)
THEOREM WhitelistOutlives == Spec => WhitelistOutlivesFailures
<1>1. ASSUME IInv, [Next]_vars, NEW c \in Checkers, Decides(c),
             decision'[c] = "blocked"
      PROVE  ago["notWhite"] <= Horizon \/ ago["lookupFailed"] <= CheckTicks
  <2>1. GetBlacklistKey(c) \/ SetBlacklistKey(c)
    BY <1>1, WhoDecides
  <2>2. PassedInv(c) /\ pc[c] \in {"get blacklist", "set blacklist"}
    BY <1>1, <2>1 DEF IInv, GetBlacklistKey, SetBlacklistKey
  <2>3. age[c] \in 0 .. CheckTicks
    BY <1>1 DEF IInv, TypeInv, ChecksType
  <2>4. ago["notWhite"] \in Nat /\ ago["lookupFailed"] \in Nat
    BY <1>1, TtlAssumption DEF IInv, TypeInv, AgoType, Horizon, Lifetime, Facts
  <2>5. Lifetime \in Nat /\ Horizon = Lifetime + CheckTicks
    BY TtlAssumption DEF Horizon, Lifetime
  <2>6. CASE ago["notWhite"] <= Lifetime + age[c]
    BY <2>3, <2>4, <2>5, <2>6, TtlAssumption
  <2>7. CASE ago["lookupFailed"] <= age[c]
    BY <2>3, <2>4, <2>7, TtlAssumption
  <2>8. QED
    BY <2>2, <2>6, <2>7 DEF PassedInv
<1>2. IInv /\ [Next]_vars =>
        [\A c \in Checkers : Decides(c) /\ decision'[c] = "blocked" =>
           \/ ago["notWhite"] <= Horizon
           \/ ago["lookupFailed"] <= CheckTicks]_vars
  BY <1>1
<1>3. QED
  BY <1>2, InitIInv, NextIInv, PTL DEF Spec, WhitelistOutlivesFailures

=============================================================================
