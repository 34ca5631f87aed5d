------------------------ MODULE CloudflarePush_proofs ------------------------
(***************************************************************************)
(* Proofs about CloudflarePush, for every set of rows, every guard, every   *)
(* rate limit and every set of faults: the variables keep their types, a    *)
(* settled service is in sync with the blacklist, the pushes of one process *)
(* are spaced, and no replacement swings the list further than the guard    *)
(* and the repeated addresses of its data allow.                            *)
(***************************************************************************)
EXTENDS CloudflarePush, FiniteSetTheorems, TLAPS

-----------------------------------------------------------------------------
(* A settled service is in sync *)

Syncing == {"sync", "state", "fetch", "fetched", "put", "poll"}

(* Is a notification of a change still to be handled? *)
Notified == unread > 0 \/ notifies > 0

CountsOK == unread \in Nat /\ notifies \in Nat

ListenInv ==
    /\ pc \in Locations
    /\ pc # "down" => listening
    /\ pc \in Syncing => pending

(* What the service holds is the blacklist, or a notification says it is not. *)
FetchInv ==
    pc \in {"fetched", "put", "poll"} =>
        \/ fetched = active
        \/ Notified
        \/ pc = "fetched" /\ fetched = {}

OperationInv ==
    /\ opState = "completed" => list = Addresses(op)
    /\ pc = "poll" => op = fetched

(* With nothing pending and nothing refused, no abandoned operation can     *)
(* replace the list any more.                                               *)
QuietInv ==
    pc # "down" /\ ~pending /\ ~blocked =>
        /\ opState # "running"
        /\ list = Addresses(active) \/ Notified

IInv == CountsOK /\ ListenInv /\ FetchInv /\ OperationInv /\ QuietInv

LEMMA InitIInv == Init => IInv
  BY DEF Init, IInv, CountsOK, ListenInv, FetchInv, OperationInv, QuietInv,
         Locations, Syncing

LEMMA NextIInv ==
  ASSUME IInv, [Next]_vars
  PROVE  IInv'
<1> USE DEF IInv, CountsOK, ListenInv, FetchInv, OperationInv, QuietInv,
            Notified, Locations, Syncing, database, cloud, locals, bounds,
            Defer, Leave
<1>1. CASE Start
  BY <1>1 DEF Start
<1>2. CASE Loop
  BY <1>2 DEF Loop
<1>3. CASE WakeOnNotification
  BY <1>3 DEF WakeOnNotification
<1>4. CASE WakeOnTimeout
  BY <1>4 DEF WakeOnTimeout
<1>5. CASE HandleNotification
  BY <1>5 DEF HandleNotification
<1>6. CASE DrainEnds
  BY <1>6 DEF DrainEnds
<1>7. CASE CheckRateLimit
  BY <1>7 DEF CheckRateLimit
<1>8. CASE FetchListState
  BY <1>8 DEF FetchListState
<1>9. CASE QueryActiveIps
  BY <1>9 DEF QueryActiveIps
<1>10. CASE ReceiveActiveIps
  <2>1. CountsOK' /\ (Notified' <=> Notified)
    BY <1>10 DEF ReceiveActiveIps
  <2>2. ListenInv' /\ OperationInv'
    BY <1>10 DEF ReceiveActiveIps
  <2>3. FetchInv'
    BY <1>10, <2>1 DEF ReceiveActiveIps
  <2>4. QuietInv'
    BY <1>10, <2>1 DEF ReceiveActiveIps
  <2>5. QED
    BY <2>1, <2>2, <2>3, <2>4
<1>11. CASE Put
  BY <1>11 DEF Put
<1>12. CASE PollOperation
  BY <1>12 DEF PollOperation
<1>13. CASE ListenerFails \/ Crash
  BY <1>13 DEF ListenerFails, Crash
<1>14. ASSUME NEW rows \in SUBSET Rows, ChangeBlacklist(rows)
       PROVE  IInv'
  BY <1>14 DEF ChangeBlacklist
<1>15. CASE OperationCompletes
  BY <1>15 DEF OperationCompletes
<1>16. CASE OperationFails
  BY <1>16 DEF OperationFails
<1>17. CASE Tick
  BY <1>17 DEF Tick
<1>18. CASE UNCHANGED vars
  BY <1>18 DEF vars
<1>19. QED
  BY <1>1, <1>2, <1>3, <1>4, <1>5, <1>6, <1>7, <1>8, <1>9, <1>10, <1>11,
     <1>12, <1>13, <1>14, <1>15, <1>16, <1>17, <1>18
  DEF Next, Service, SyncNow

(* Whenever the service is settled the list is the blacklist, for every     *)
(* interleaving of changes, failures, abandoned operations and restarts.    *)
THEOREM SettledSound == Spec => []SettledIsInSync
<1>1. IInv => SettledIsInSync
  BY DEF IInv, CountsOK, QuietInv, SettledIsInSync, Settled, Notified
<1>2. QED
  BY <1>1, InitIInv, NextIInv, PTL DEF Spec

-----------------------------------------------------------------------------
(* The pushes of one process are spaced *)

SpacingInv ==
    /\ sincePush \in 0 .. RateLimit
    /\ sincePush < RateLimit => remembers
    /\ pc \in {"state", "fetch", "fetched", "put"} => sincePush = RateLimit

(* No push begins within RateLimit of another one of the same process.      *)
THEOREM PushesSpaced == Spec => []PushesAreSpaced
<1>1. Init => SpacingInv
  BY TimerAssumption DEF Init, SpacingInv
<1>2. SpacingInv /\ [Next]_vars => SpacingInv'
  <2> SUFFICES ASSUME SpacingInv, [Next]_vars
               PROVE  SpacingInv'
    OBVIOUS
  <2> USE TimerAssumption DEF SpacingInv, Leave
  <2>1. CASE Start \/ Loop \/ WakeOnNotification \/ WakeOnTimeout
    BY <2>1 DEF Start, Loop, WakeOnNotification, WakeOnTimeout
  <2>2. CASE HandleNotification \/ DrainEnds
    BY <2>2 DEF HandleNotification, DrainEnds
  <2>3. CASE CheckRateLimit
    BY <2>3 DEF CheckRateLimit
  <2>4. CASE FetchListState \/ QueryActiveIps \/ ReceiveActiveIps
    BY <2>4 DEF FetchListState, QueryActiveIps, ReceiveActiveIps
  <2>5. CASE Put
    BY <2>5 DEF Put
  <2>6. CASE PollOperation
    BY <2>6 DEF PollOperation
  <2>7. CASE ListenerFails \/ Crash
    BY <2>7 DEF ListenerFails, Crash, Mishap
  <2>8. CASE \E rows \in SUBSET Rows : ChangeBlacklist(rows)
    BY <2>8 DEF ChangeBlacklist
  <2>9. CASE OperationCompletes \/ OperationFails
    BY <2>9 DEF OperationCompletes, OperationFails
  <2>10. CASE Tick
    BY <2>10 DEF Tick, Older
  <2>11. CASE UNCHANGED vars
    BY <2>11 DEF vars
  <2>12. QED
    BY <2>1, <2>2, <2>3, <2>4, <2>5, <2>6, <2>7, <2>8, <2>9, <2>10, <2>11
    DEF Next, Service, SyncNow
<1>3. SpacingInv => PushesAreSpaced
  BY DEF SpacingInv, PushesAreSpaced
<1>4. QED
  BY <1>1, <1>2, <1>3, PTL DEF Spec

-----------------------------------------------------------------------------
(* Types *)

(* Every notification that waits somewhere was sent by a change of its own. *)
DatabaseType ==
    /\ active \subseteq Rows
    /\ unread \in 0 .. MaxChanges
    /\ notifies \in 0 .. MaxChanges
    /\ changes \in 0 .. MaxChanges
    /\ unread + notifies <= changes

CloudType ==
    /\ list \subseteq Ips
    /\ op \subseteq Rows
    /\ opState \in {"none", "running", "completed", "failed"}
    /\ sinceModified \in 0 .. RateLimit
    /\ mishaps \in 0 .. MaxMishaps

TimerType ==
    /\ sincePush \in 0 .. RateLimit
    /\ retryIn \in 0 .. RateLimit \/ retryIn \in 0 .. Backoff
    /\ seen \in 0 .. Cardinality(Ips)
    /\ fetched \subseteq Rows

PlaceType == pc \in Locations /\ caller \in {"loop", "drain"}

FlagsType ==
    /\ listening \in BOOLEAN
    /\ abandoned \in BOOLEAN
    /\ pending \in BOOLEAN
    /\ remembers \in BOOLEAN
    /\ blocked \in BOOLEAN

TypeInv == DatabaseType /\ CloudType /\ TimerType /\ PlaceType /\ FlagsType

(* Rows have no more addresses than they are, which are addresses.          *)
LEMMA AddressesAreFew ==
  ASSUME NEW S \in SUBSET Rows
  PROVE  /\ IsFiniteSet(Addresses(S)) /\ Addresses(S) \subseteq Ips
         /\ Cardinality(S) \in Nat
         /\ Cardinality(Addresses(S)) \in Nat
         /\ Cardinality(Addresses(S)) <= Cardinality(S)
<1> DEFINE f == [r \in S |-> IpOf[r]]
<1>1. IsFiniteSet(S)
  BY RowsAssumption, FS_Subset
<1>2. f \in Surjection(S, Addresses(S))
  BY DEF Surjection, Addresses
<1>3. /\ IsFiniteSet(Addresses(S))
      /\ Cardinality(Addresses(S)) <= Cardinality(S)
  BY <1>1, <1>2, FS_Surjection
<1>4. Addresses(S) \subseteq Ips
  BY DEF Addresses, Ips
<1>5. QED
  BY <1>1, <1>3, <1>4, FS_CardinalityType

LEMMA IpsAreFinite == IsFiniteSet(Ips) /\ Cardinality(Ips) \in Nat
  BY AddressesAreFew DEF Ips

LEMMA SizesAreBounded ==
  ASSUME NEW S \in SUBSET Ips
  PROVE  /\ Cardinality(S) \in Nat
         /\ Cardinality(S) \in 0 .. Cardinality(Ips)
<1>1. IsFiniteSet(S) /\ Cardinality(S) <= Cardinality(Ips)
  BY IpsAreFinite, FS_Subset
<1>2. Cardinality(S) \in Nat
  BY <1>1, FS_CardinalityType
<1>3. QED
  BY <1>1, <1>2, IpsAreFinite

LEMMA InitTypeInv == Init => TypeInv
<1> SUFFICES ASSUME Init PROVE TypeInv
  OBVIOUS
<1>1. Cardinality(Ips) \in Nat
  BY IpsAreFinite
<1>2. DatabaseType
  BY BoundAssumption DEF Init, DatabaseType
<1>3. CloudType
  BY TimerAssumption, BoundAssumption DEF Init, CloudType
<1>4. TimerType
  BY <1>1, TimerAssumption DEF Init, TimerType
<1>5. PlaceType
  BY DEF Init, PlaceType, Locations
<1>6. FlagsType
  BY DEF Init, FlagsType
<1>7. QED
  BY <1>2, <1>3, <1>4, <1>5, <1>6 DEF TypeInv

LEMMA NextDatabaseType ==
  ASSUME TypeInv, [Next]_vars
  PROVE  DatabaseType'
<1> USE BoundAssumption DEF TypeInv, DatabaseType, database, bounds
<1>1. CASE Start \/ Loop
  BY <1>1 DEF Start, Loop
<1>2. CASE WakeOnNotification \/ WakeOnTimeout
  BY <1>2 DEF WakeOnNotification, WakeOnTimeout
<1>3. CASE HandleNotification \/ DrainEnds
  BY <1>3 DEF HandleNotification, DrainEnds
<1>4. CASE CheckRateLimit
  BY <1>4 DEF CheckRateLimit
<1>5. CASE FetchListState
  BY <1>5 DEF FetchListState
<1>6. CASE QueryActiveIps \/ ReceiveActiveIps
  BY <1>6 DEF QueryActiveIps, ReceiveActiveIps
<1>7. CASE Put
  BY <1>7 DEF Put
<1>8. CASE PollOperation
  BY <1>8 DEF PollOperation
<1>9. CASE ListenerFails \/ Crash
  BY <1>9 DEF ListenerFails, Crash
<1>10. ASSUME NEW rows \in SUBSET Rows, ChangeBlacklist(rows)
       PROVE  DatabaseType'
  BY <1>10 DEF ChangeBlacklist
<1>11. CASE OperationCompletes \/ OperationFails
  BY <1>11 DEF OperationCompletes, OperationFails
<1>12. CASE Tick
  BY <1>12 DEF Tick, Older
<1>13. CASE UNCHANGED vars
  BY <1>13 DEF vars
<1>14. QED
  BY <1>1, <1>2, <1>3, <1>4, <1>5, <1>6, <1>7, <1>8, <1>9, <1>10, <1>11, <1>12, <1>13
  DEF Next, Service, SyncNow

LEMMA NextCloudType ==
  ASSUME TypeInv, [Next]_vars
  PROVE  CloudType'
<1> USE TimerAssumption, BoundAssumption, AddressesAreFew
        DEF TypeInv, CloudType, TimerType, cloud, bounds, Mishap
<1>1. CASE Start \/ Loop
  BY <1>1 DEF Start, Loop
<1>2. CASE WakeOnNotification \/ WakeOnTimeout
  BY <1>2 DEF WakeOnNotification, WakeOnTimeout
<1>3. CASE HandleNotification \/ DrainEnds
  BY <1>3 DEF HandleNotification, DrainEnds
<1>4. CASE CheckRateLimit
  BY <1>4 DEF CheckRateLimit
<1>5. CASE FetchListState
  BY <1>5 DEF FetchListState
<1>6. CASE QueryActiveIps \/ ReceiveActiveIps
  BY <1>6 DEF QueryActiveIps, ReceiveActiveIps
<1>7. CASE Put
  BY <1>7 DEF Put
<1>8. CASE PollOperation
  BY <1>8 DEF PollOperation
<1>9. CASE ListenerFails \/ Crash
  BY <1>9 DEF ListenerFails, Crash
<1>10. ASSUME NEW rows \in SUBSET Rows, ChangeBlacklist(rows)
       PROVE  CloudType'
  BY <1>10 DEF ChangeBlacklist
<1>11. CASE OperationCompletes \/ OperationFails
  BY <1>11 DEF OperationCompletes, OperationFails
<1>12. CASE Tick
  BY <1>12 DEF Tick, Older
<1>13. CASE UNCHANGED vars
  BY <1>13 DEF vars
<1>14. QED
  BY <1>1, <1>2, <1>3, <1>4, <1>5, <1>6, <1>7, <1>8, <1>9, <1>10, <1>11, <1>12, <1>13
  DEF Next, Service, SyncNow

LEMMA NextTimerType ==
  ASSUME TypeInv, [Next]_vars
  PROVE  TimerType'
<1> USE TimerAssumption, SizesAreBounded
        DEF TypeInv, DatabaseType, CloudType, TimerType, locals, Defer
<1>1. CASE Start \/ Loop
  BY <1>1 DEF Start, Loop
<1>2. CASE WakeOnNotification \/ WakeOnTimeout
  BY <1>2 DEF WakeOnNotification, WakeOnTimeout
<1>3. CASE HandleNotification \/ DrainEnds
  BY <1>3 DEF HandleNotification, DrainEnds
<1>4. CASE CheckRateLimit
  BY <1>4 DEF CheckRateLimit
<1>5. CASE FetchListState
  BY <1>5 DEF FetchListState
<1>6. CASE QueryActiveIps \/ ReceiveActiveIps
  BY <1>6 DEF QueryActiveIps, ReceiveActiveIps
<1>7. CASE Put
  BY <1>7 DEF Put
<1>8. CASE PollOperation
  BY <1>8 DEF PollOperation
<1>9. CASE ListenerFails \/ Crash
  <2>1. Cardinality(Ips) \in Nat
    BY IpsAreFinite
  <2>2. QED
    BY <1>9, <2>1 DEF ListenerFails, Crash
<1>10. ASSUME NEW rows \in SUBSET Rows, ChangeBlacklist(rows)
       PROVE  TimerType'
  BY <1>10 DEF ChangeBlacklist
<1>11. CASE OperationCompletes \/ OperationFails
  BY <1>11 DEF OperationCompletes, OperationFails
<1>12. CASE Tick
  BY <1>12 DEF Tick, Older
<1>13. CASE UNCHANGED vars
  BY <1>13 DEF vars
<1>14. QED
  BY <1>1, <1>2, <1>3, <1>4, <1>5, <1>6, <1>7, <1>8, <1>9, <1>10, <1>11, <1>12, <1>13
  DEF Next, Service, SyncNow

LEMMA NextPlaceType ==
  ASSUME TypeInv, [Next]_vars
  PROVE  PlaceType'
<1> USE DEF TypeInv, PlaceType, Locations, Leave
<1>1. CASE Start \/ Loop
  BY <1>1 DEF Start, Loop
<1>2. CASE WakeOnNotification \/ WakeOnTimeout
  BY <1>2 DEF WakeOnNotification, WakeOnTimeout
<1>3. CASE HandleNotification \/ DrainEnds
  BY <1>3 DEF HandleNotification, DrainEnds
<1>4. CASE CheckRateLimit
  BY <1>4 DEF CheckRateLimit
<1>5. CASE FetchListState
  BY <1>5 DEF FetchListState
<1>6. CASE QueryActiveIps \/ ReceiveActiveIps
  BY <1>6 DEF QueryActiveIps, ReceiveActiveIps
<1>7. CASE Put
  BY <1>7 DEF Put
<1>8. CASE PollOperation
  BY <1>8 DEF PollOperation
<1>9. CASE ListenerFails \/ Crash
  BY <1>9 DEF ListenerFails, Crash
<1>10. ASSUME NEW rows \in SUBSET Rows, ChangeBlacklist(rows)
       PROVE  PlaceType'
  BY <1>10 DEF ChangeBlacklist
<1>11. CASE OperationCompletes \/ OperationFails
  BY <1>11 DEF OperationCompletes, OperationFails
<1>12. CASE Tick
  BY <1>12 DEF Tick, Older
<1>13. CASE UNCHANGED vars
  BY <1>13 DEF vars
<1>14. QED
  BY <1>1, <1>2, <1>3, <1>4, <1>5, <1>6, <1>7, <1>8, <1>9, <1>10, <1>11, <1>12, <1>13
  DEF Next, Service, SyncNow

LEMMA NextFlagsType ==
  ASSUME TypeInv, [Next]_vars
  PROVE  FlagsType'
<1> USE DEF TypeInv, FlagsType, database, cloud, Defer, Abandon
<1>1. CASE Start \/ Loop
  BY <1>1 DEF Start, Loop
<1>2. CASE WakeOnNotification \/ WakeOnTimeout
  BY <1>2 DEF WakeOnNotification, WakeOnTimeout
<1>3. CASE HandleNotification \/ DrainEnds
  BY <1>3 DEF HandleNotification, DrainEnds
<1>4. CASE CheckRateLimit
  BY <1>4 DEF CheckRateLimit
<1>5. CASE FetchListState
  BY <1>5 DEF FetchListState
<1>6. CASE QueryActiveIps \/ ReceiveActiveIps
  BY <1>6 DEF QueryActiveIps, ReceiveActiveIps
<1>7. CASE Put
  BY <1>7 DEF Put
<1>8. CASE PollOperation
  BY <1>8 DEF PollOperation
<1>9. CASE ListenerFails \/ Crash
  BY <1>9 DEF ListenerFails, Crash
<1>10. ASSUME NEW rows \in SUBSET Rows, ChangeBlacklist(rows)
       PROVE  FlagsType'
  BY <1>10 DEF ChangeBlacklist
<1>11. CASE OperationCompletes \/ OperationFails
  BY <1>11 DEF OperationCompletes, OperationFails
<1>12. CASE Tick
  BY <1>12 DEF Tick, Older
<1>13. CASE UNCHANGED vars
  BY <1>13 DEF vars
<1>14. QED
  BY <1>1, <1>2, <1>3, <1>4, <1>5, <1>6, <1>7, <1>8, <1>9, <1>10, <1>11, <1>12, <1>13
  DEF Next, Service, SyncNow

LEMMA NextTypeInv ==
  ASSUME TypeInv, [Next]_vars
  PROVE  TypeInv'
  BY NextDatabaseType, NextCloudType, NextTimerType, NextPlaceType, NextFlagsType
  DEF TypeInv

(* Every variable keeps its type, whatever fails in whatever order.         *)
THEOREM TypeCorrect == Spec => []TypeOK
<1>1. TypeInv => TypeOK
  BY DEF TypeInv, DatabaseType, CloudType, TimerType, PlaceType, FlagsType, TypeOK
<1>2. QED
  BY <1>1, InitTypeInv, NextTypeInv, PTL DEF Spec

-----------------------------------------------------------------------------
(* No replacement swings the list too far *)

(* As long as no operation was given up, an operation that runs is the one  *)
(* being polled, what the guard compared is still true of the list, and     *)
(* what is on its way to Cloudflare has passed the guard.                   *)
SwingInv ==
    /\ ~abandoned /\ opState = "running" =>
           pc = "poll" /\ WithinChangeGuard(Cardinality(list), Cardinality(op))
    /\ ~abandoned /\ pc \in {"fetch", "fetched", "put"} => seen = Cardinality(list)
    /\ pc = "put" => WithinChangeGuard(seen, Cardinality(fetched))

LEMMA NextSwingInv ==
  ASSUME TypeInv, SwingInv, [Next]_vars
  PROVE  SwingInv'
<1> USE DEF SwingInv, TypeInv, CloudType, PlaceType, FlagsType, database, cloud, locals, bounds, Defer, Leave, Abandon
<1>1. CASE Start \/ Loop \/ WakeOnNotification \/ WakeOnTimeout
  BY <1>1 DEF Start, Loop, WakeOnNotification, WakeOnTimeout
<1>2. CASE HandleNotification \/ DrainEnds \/ CheckRateLimit
  BY <1>2 DEF HandleNotification, DrainEnds, CheckRateLimit
<1>3. CASE FetchListState \/ QueryActiveIps
  BY <1>3 DEF FetchListState, QueryActiveIps
<1>4. CASE ReceiveActiveIps
  BY <1>4 DEF ReceiveActiveIps
<1>5. CASE Put
  BY <1>5 DEF Put
<1>6. CASE PollOperation
  BY <1>6 DEF PollOperation
<1>7. CASE ListenerFails \/ Crash
  BY <1>7 DEF ListenerFails, Crash
<1>8. ASSUME NEW rows \in SUBSET Rows, ChangeBlacklist(rows)
      PROVE  SwingInv'
  BY <1>8 DEF ChangeBlacklist
<1>9. CASE OperationCompletes \/ OperationFails
  BY <1>9 DEF OperationCompletes, OperationFails
<1>10. CASE Tick
  BY <1>10 DEF Tick
<1>11. CASE UNCHANGED vars
  BY <1>11 DEF vars
<1>12. QED
  BY <1>1, <1>2, <1>3, <1>4, <1>5, <1>6, <1>7, <1>8, <1>9, <1>10, <1>11
  DEF Next, Service, SyncNow

(* The list is replaced only when an operation completes. *)
LEMMA ListChanges ==
  ASSUME [Next]_vars, list' # list
  PROVE  OperationCompletes
  BY DEF Next, Service, SyncNow, vars, database, cloud, locals, bounds, Start, Loop,
         WakeOnNotification, WakeOnTimeout, HandleNotification, DrainEnds,
         CheckRateLimit, FetchListState, QueryActiveIps, ReceiveActiveIps,
         Put, PollOperation, ListenerFails, Crash, ChangeBlacklist,
         OperationFails, Tick

(* Unless an operation was given up, the list grows no more than the guard  *)
(* allows, and shrinks more than that at most by the rows that repeat an    *)
(* address, measured on the list that is replaced.                          *)
THEOREM SwingsGuarded == Spec => GuardedSwings
<1>1. Init => SwingInv
  BY DEF Init, SwingInv
<1>2. ASSUME TypeInv, SwingInv, [Next]_vars, list' # list, ~abandoned,
             Cardinality(list) >= GuardMinBaseline
      PROVE  /\ (Cardinality(list') - Cardinality(list)) * 100 <= MaxChangePercent * Cardinality(list)
             /\ ((Cardinality(list) - Cardinality(list')) - (Cardinality(op) - Cardinality(list'))) * 100
                    <= MaxChangePercent * Cardinality(list)
  <2> DEFINE before == Cardinality(list)
             after  == Cardinality(list')
             rows   == Cardinality(op)
  <2>1. opState = "running" /\ list' = Addresses(op)
    BY <1>2, ListChanges DEF OperationCompletes
  <2>2. WithinChangeGuard(before, rows)
    BY <1>2, <2>1 DEF SwingInv
  <2>3. before \in Nat
    BY <1>2, SizesAreBounded DEF TypeInv, CloudType
  <2>4. after \in Nat /\ rows \in Nat /\ after <= rows
    BY <1>2, <2>1, AddressesAreFew DEF TypeInv, CloudType
  <2>5. MaxChangePercent * before \in Nat
    BY <2>3, GuardAssumption
  <2> HIDE DEF before, after, rows
  <2>6. (rows - before) * 100 <= MaxChangePercent * before
    BY <1>2, <2>2, <2>3, <2>4, <2>5, GuardAssumption DEF WithinChangeGuard, before
  <2>7. (before - rows) * 100 <= MaxChangePercent * before
    BY <1>2, <2>2, <2>3, <2>4, <2>5, GuardAssumption DEF WithinChangeGuard, before
  <2>8. (after - before) * 100 <= MaxChangePercent * before
    BY <2>3, <2>4, <2>5, <2>6
  <2>9. ((before - after) - (rows - after)) * 100 <= MaxChangePercent * before
    BY <2>3, <2>4, <2>7
  <2>10. QED
    BY <2>8, <2>9 DEF before, after, rows
<1>3. TypeInv /\ SwingInv /\ [Next]_vars =>
        [LET before   == Cardinality(list)
             after    == Cardinality(list')
             repeated == Cardinality(op) - after
         IN  ~abandoned /\ before >= GuardMinBaseline =>
                 /\ (after - before) * 100 <= MaxChangePercent * before
                 /\ ((before - after) - repeated) * 100 <= MaxChangePercent * before]_list
  BY <1>2
<1>4. QED
  BY <1>1, <1>3, InitTypeInv, NextTypeInv, NextSwingInv, PTL DEF Spec, GuardedSwings

=============================================================================
