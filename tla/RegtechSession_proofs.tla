------------------------ MODULE RegtechSession_proofs ------------------------
(***************************************************************************)
(* Proofs about RateLimiters and RegtechSession, for every number of       *)
(* threads, rows, rates, limits and faults: the request limiter keeps its  *)
(* rate and its backoffs, failed logins are limited, a rejected session is *)
(* not sent again, a run returns what it should and is given up for its    *)
(* own signals only, and the archive stays near its cap.                   *)
(***************************************************************************)
EXTENDS RegtechSession, FiniteSetTheorems, SequenceTheorems, TLAPS

-----------------------------------------------------------------------------
(* Numbers *)

LEMMA MinOfTwo ==
  ASSUME NEW a \in Int, NEW b \in Int
  PROVE  Min({a, b}) = IF a <= b THEN a ELSE b
<1> DEFINE m == IF a <= b THEN a ELSE b
<1>1. m \in {a, b} /\ \A y \in {a, b} : m <= y
  OBVIOUS
<1>2. \A x \in {a, b} : (\A y \in {a, b} : x <= y) => x = m
  OBVIOUS
<1> HIDE DEF m
<1>3. (CHOOSE x \in {a, b} : \A y \in {a, b} : x <= y) = m
  BY <1>1, <1>2
<1>4. QED
  BY <1>3 DEF Min, m

LEMMA MaxOfTwo ==
  ASSUME NEW a \in Int, NEW b \in Int
  PROVE  Max({a, b}) = IF a >= b THEN a ELSE b
<1> DEFINE m == IF a >= b THEN a ELSE b
<1>1. m \in {a, b} /\ \A y \in {a, b} : m >= y
  OBVIOUS
<1>2. \A x \in {a, b} : (\A y \in {a, b} : x >= y) => x = m
  OBVIOUS
<1> HIDE DEF m
<1>3. (CHOOSE x \in {a, b} : \A y \in {a, b} : x >= y) = m
  BY <1>1, <1>2
<1>4. QED
  BY <1>3 DEF Max, m

LEMMA SlowerIsLess ==
  ASSUME NEW d \in Nat, NEW r \in Nat, NEW m \in Nat, r <= m
  PROVE  d * r \in Nat /\ d * m \in Nat /\ d * r <= d * m
  OBVIOUS

LEMMA RateOverTwoStretches ==
  ASSUME NEW m \in Nat, NEW x \in Int, NEW y \in Int, NEW z \in Int
  PROVE  m * (z - y) + m * (y - x) = m * (z - x)
  OBVIOUS

LEMMA LessWithout ==
  ASSUME NEW a \in Int, NEW b \in Nat, NEW c \in Int, a + b <= c
  PROVE  a <= c
  OBVIOUS

LEMMA RoomForAll ==
  ASSUME NEW a \in Nat, NEW k \in Nat, NEW c \in Nat, NEW n \in Nat, a + 1 <= c, k <= n
  PROVE  a + k <= c + n - 1
  OBVIOUS

LEMMA OneFewerIsLeft ==
  ASSUME NEW n \in Int, NEW j \in Int, NEW p \in Int, NEW q \in Int, NEW m \in Int,
         (n - j) + p <= m, q <= p - 1
  PROVE  (n + 1 - j) + q <= m
  OBVIOUS

LEMMA NobodyIsLeft ==
  ASSUME NEW a \in Int, NEW p \in Int, NEW q \in Nat, NEW m \in Int,
         a + p <= m, a = m, q <= p - 1
  PROVE  FALSE
  OBVIOUS

LEMMA OneMoreToken ==
  ASSUME NEW n \in Int, NEW c \in Nat
  PROVE  (n + 1) * c = n * c + c
  OBVIOUS

-----------------------------------------------------------------------------
(* The request limiter *)

limiterVars == <<now, bucketVars>>

Places == {"idle", "refill", "sleep", "granted", "faster", "backoff", "slower"}

BucketType ==
    /\ now \in Nat /\ lastRefill \in Nat /\ lastRefill <= now
    /\ tokens \in Nat /\ tokens <= BurstSize * OneToken
    /\ rate \in Nat /\ rate <= MaxRate
    /\ failureCount \in Nat /\ successStreak \in Nat
    /\ grants \in Seq(Nat)

CallType ==
    /\ limit \in [Threads -> Places]
    /\ before \in [Threads -> Nat]

(* A step of the whole is a step of the limiter or leaves it alone. *)
LEMMA LimiterSteps ==
  ASSUME [CollectionNext]_<<now, bucketVars, loginLock, sessionVars>>
  PROVE  \/ LimiterNext /\ UNCHANGED sessionVars
         \/ UNCHANGED limiterVars
  BY DEF CollectionNext, limiterVars

LEMMA InitLimiterType == CollectionInit => BucketType /\ CallType
<1> SUFFICES ASSUME CollectionInit PROVE BucketType /\ CallType
  OBVIOUS
<1>1. BurstSize \in Nat /\ OneToken \in Nat /\ InitialRate \in Nat /\ InitialRate <= MaxRate
  BY LimiterAssumption
<1>2. BurstSize * OneToken \in Nat
  BY <1>1
<1>3. QED
  BY <1>1, <1>2 DEF CollectionInit, InitLimiters, BucketType, CallType, Places

(* What a refill makes of the bucket. *)
LEMMA Refilled ==
  ASSUME BucketType
  PROVE  /\ RefillTokens \in Nat
         /\ RefillTokens <= BurstSize * OneToken
         /\ RefillTokens <= tokens + (now - lastRefill) * MaxRate
<1>1. BurstSize \in Nat /\ OneToken \in Nat /\ MaxRate \in Nat
  BY LimiterAssumption
<1>2. BurstSize * OneToken \in Nat
  BY <1>1
<1>3. now - lastRefill \in Nat
  BY DEF BucketType
<1>4. /\ (now - lastRefill) * rate \in Nat /\ (now - lastRefill) * MaxRate \in Nat
      /\ (now - lastRefill) * rate <= (now - lastRefill) * MaxRate
  BY <1>1, <1>3, SlowerIsLess DEF BucketType
<1> DEFINE cap == BurstSize * OneToken
           sum == tokens + (now - lastRefill) * rate
<1>5. cap \in Int /\ sum \in Nat
  BY <1>2, <1>4 DEF BucketType
<1>6. RefillTokens = Min({cap, sum})
  BY DEF RefillTokens
<1>7. sum <= tokens + (now - lastRefill) * MaxRate
  BY <1>4 DEF BucketType
<1> HIDE DEF cap, sum
<1>8. Min({cap, sum}) = IF cap <= sum THEN cap ELSE sum
  BY <1>5, MinOfTwo
<1>9. tokens + (now - lastRefill) * MaxRate \in Nat
  BY <1>4 DEF BucketType
<1>10. cap \in Nat
  BY <1>2 DEF cap
<1>11. RefillTokens \in Nat /\ RefillTokens <= cap /\ RefillTokens <= sum
  BY <1>5, <1>6, <1>8, <1>10
<1>12. RefillTokens <= tokens + (now - lastRefill) * MaxRate
  BY <1>5, <1>7, <1>9, <1>11
<1>13. QED
  BY <1>11, <1>12 DEF cap

LEMMA NextBucketType ==
  ASSUME BucketType, LimiterNext
  PROVE  BucketType'
<1>1. ASSUME NEW t \in Threads, Acquire(t)
      PROVE  BucketType'
  <2>1. /\ RefillTokens \in Nat /\ RefillTokens <= BurstSize * OneToken
    BY Refilled
  <2>2. UNCHANGED <<now, rate, failureCount, successStreak>> /\ lastRefill' = now
    BY <1>1 DEF Acquire, Adjusted
  <2>3. grants' \in Seq(Nat)
    <3>1. grants' = grants \/ grants' = Append(grants, now)
      BY <1>1 DEF Acquire
    <3>2. grants \in Seq(Nat) /\ now \in Nat
      BY DEF BucketType
    <3>3. QED
      BY <3>1, <3>2
  <2>4. \/ tokens' = RefillTokens
        \/ RefillTokens >= OneToken /\ tokens' = RefillTokens - OneToken
    BY <1>1 DEF Acquire
  <2>5. BurstSize * OneToken \in Nat /\ OneToken \in Nat
    BY LimiterAssumption
  <2>6. tokens' \in Nat /\ tokens' <= BurstSize * OneToken
    BY <2>1, <2>4, <2>5
  <2>7. QED
    BY <2>2, <2>3, <2>6 DEF BucketType
<1>2. ASSUME NEW t \in Threads, SpeedUp(t)
      PROVE  BucketType'
  <2>1. (rate * 6) \div 5 \in Nat /\ MaxRate \in Nat
    BY LimiterAssumption DEF BucketType
  <2>2. /\ Min({MaxRate, (rate * 6) \div 5}) \in Nat
        /\ Min({MaxRate, (rate * 6) \div 5}) <= MaxRate
    BY <2>1, MinOfTwo
  <2>3. rate' \in Nat /\ rate' <= MaxRate
    BY <1>2, <2>2 DEF SpeedUp, BucketType
  <2>4. Min({AdjustAfter, successStreak + 1}) \in Nat
    <3>1. AdjustAfter \in Nat /\ successStreak + 1 \in Nat
      BY LimiterAssumption DEF BucketType
    <3>2. QED
      BY <3>1, MinOfTwo
  <2>5. successStreak' \in Nat
    BY <1>2, <2>4 DEF SpeedUp
  <2>6. QED
    BY <1>2, <2>3, <2>5 DEF SpeedUp, BucketType
<1>3. ASSUME NEW t \in Threads, SlowDown(t)
      PROVE  BucketType'
  <2>1. rate \div 2 \in Nat /\ rate \div 2 <= rate /\ MinRate \in Nat /\ MinRate <= MaxRate
    BY LimiterAssumption DEF BucketType
  <2>2. /\ Max({MinRate, rate \div 2}) \in Nat
        /\ Max({MinRate, rate \div 2}) <= MaxRate
    <3>1. rate \div 2 <= MaxRate /\ MaxRate \in Nat
      BY <2>1, LimiterAssumption DEF BucketType
    <3>2. QED
      BY <2>1, <3>1, MaxOfTwo
  <2>3. QED
    BY <1>3, <2>2 DEF SlowDown, BucketType
<1>4. ASSUME NEW t \in Threads, WaitIfNeeded(t) \/ LookAgain(t) \/ OnSuccess(t) \/ BackoffEnds(t)
      PROVE  BucketType'
  <2>1. /\ UNCHANGED <<now, tokens, lastRefill, rate, successStreak, grants>>
        /\ failureCount' \in {0, failureCount}
    BY <1>4 DEF WaitIfNeeded, LookAgain, OnSuccess, BackoffEnds, Adjusted
  <2>2. QED
    BY <2>1 DEF BucketType
<1>5. ASSUME NEW t \in Threads, NEW overload \in BOOLEAN, OnFailure(t, overload)
      PROVE  BucketType'
  BY <1>5 DEF OnFailure, BucketType
<1>6. CASE Tick
  BY <1>6 DEF Tick, bucketVars, BucketType
<1>7. QED
  BY <1>1, <1>2, <1>3, <1>4, <1>5, <1>6 DEF LimiterNext

LEMMA NextCallType ==
  ASSUME BucketType, CallType, LimiterNext
  PROVE  /\ limit' \in [Threads -> Places]
         /\ before' \in [Threads -> Nat]
<1>1. Len(grants) \in Nat
  BY DEF BucketType
<1>2. CASE Tick
  BY <1>2 DEF Tick, bucketVars, CallType
<1>3. QED
  BY <1>1, <1>2 DEF LimiterNext, CallType, WaitIfNeeded, Acquire, LookAgain, OnSuccess, SpeedUp,
     OnFailure, BackoffEnds, SlowDown, Go, Places

(* Whoever refills, sleeps or backs off holds the lock, and while a thread  *)
(* backs off nothing is granted.                                            *)
HolderInv ==
    \A t \in Threads :
        /\ limit[t] \in {"refill", "sleep", "backoff"} => holder = t
        /\ limit[t] = "backoff" => Len(grants) = before[t]

LEMMA NextHolderInv ==
  ASSUME BucketType, CallType, HolderInv, LimiterNext
  PROVE  HolderInv'
<1> SUFFICES ASSUME NEW u \in Threads
             PROVE  /\ limit'[u] \in {"refill", "sleep", "backoff"} => holder' = u
                    /\ limit'[u] = "backoff" => Len(grants') = before'[u]
  BY DEF HolderInv
<1>1. /\ limit[u] \in {"refill", "sleep", "backoff"} => holder = u
      /\ limit[u] = "backoff" => Len(grants) = before[u]
  BY DEF HolderInv
<1>2. u # None /\ \A t \in Threads : t # None
  BY ThreadAssumption
<1>3. ASSUME NEW t \in Threads, Acquire(t)
      PROVE  /\ limit'[u] \in {"refill", "sleep", "backoff"} => holder' = u
             /\ limit'[u] = "backoff" => Len(grants') = before'[u]
  <2>1. limit[t] = "refill" /\ holder = t
    BY <1>3 DEF Acquire, At, HolderInv
  <2>2. \/ limit' = [limit EXCEPT ![t] = "granted"]
        \/ limit' = [limit EXCEPT ![t] = "sleep"] /\ holder' = t /\ grants' = grants
    BY <1>3, <2>1 DEF Acquire, Go
  <2>3. CASE u = t
    BY <2>2, <2>3 DEF CallType
  <2>4. CASE u # t
    BY <1>1, <2>1, <2>2, <2>4 DEF CallType
  <2>5. QED
    BY <2>3, <2>4
<1>4. ASSUME NEW t \in Threads, NEW overload \in BOOLEAN, OnFailure(t, overload)
      PROVE  /\ limit'[u] \in {"refill", "sleep", "backoff"} => holder' = u
             /\ limit'[u] = "backoff" => Len(grants') = before'[u]
  <2>1. /\ holder = None /\ holder' = t /\ grants' = grants
        /\ limit' = [limit EXCEPT ![t] = "backoff"]
        /\ before' = [before EXCEPT ![t] = Len(grants)]
    BY <1>4 DEF OnFailure, Go
  <2>2. QED
    BY <1>1, <1>2, <2>1 DEF CallType
<1>5. ASSUME NEW t \in Threads, BackoffEnds(t)
      PROVE  /\ limit'[u] \in {"refill", "sleep", "backoff"} => holder' = u
             /\ limit'[u] = "backoff" => Len(grants') = before'[u]
  <2>1. /\ limit[t] = "backoff" /\ holder = t /\ grants' = grants
        /\ limit' = [limit EXCEPT ![t] = "slower"]
        /\ before' = [before EXCEPT ![t] = 0]
    BY <1>5 DEF BackoffEnds, Go, At, HolderInv
  <2>2. QED
    BY <1>1, <2>1 DEF CallType
<1>6. ASSUME NEW t \in Threads, WaitIfNeeded(t)
      PROVE  /\ limit'[u] \in {"refill", "sleep", "backoff"} => holder' = u
             /\ limit'[u] = "backoff" => Len(grants') = before'[u]
  <2>1. /\ holder = None /\ holder' = t /\ grants' = grants /\ before' = before
        /\ limit' = [limit EXCEPT ![t] = "refill"]
    BY <1>6 DEF WaitIfNeeded, Go
  <2>2. QED
    BY <1>1, <1>2, <2>1 DEF CallType
<1>7. ASSUME NEW t \in Threads, LookAgain(t)
      PROVE  /\ limit'[u] \in {"refill", "sleep", "backoff"} => holder' = u
             /\ limit'[u] = "backoff" => Len(grants') = before'[u]
  <2>1. /\ limit[t] = "sleep" /\ holder' = holder /\ grants' = grants /\ before' = before
        /\ limit' = [limit EXCEPT ![t] = "refill"]
    BY <1>7 DEF LookAgain, Go, At
  <2>2. holder = t
    BY <2>1 DEF HolderInv
  <2>3. QED
    BY <1>1, <2>1, <2>2 DEF CallType
<1>8. ASSUME NEW t \in Threads, OnSuccess(t) \/ SpeedUp(t) \/ SlowDown(t)
      PROVE  /\ limit'[u] \in {"refill", "sleep", "backoff"} => holder' = u
             /\ limit'[u] = "backoff" => Len(grants') = before'[u]
  <2>1. PICK place \in {"faster", "idle"} : limit' = [limit EXCEPT ![t] = place]
    BY <1>8 DEF OnSuccess, SpeedUp, SlowDown, Go
  <2>2. UNCHANGED <<holder, grants, before>>
    BY <1>8 DEF OnSuccess, SpeedUp, SlowDown
  <2>3. QED
    BY <1>1, <2>1, <2>2 DEF CallType
<1>9. CASE Tick
  BY <1>1, <1>9 DEF Tick, bucketVars
<1>10. QED
  BY <1>3, <1>4, <1>5, <1>6, <1>7, <1>8, <1>9 DEF LimiterNext

(* The tokens spent since a request, with those left, are no more than a    *)
(* burst and what the highest rate has added up to the last refill.         *)
SpentSince(i) ==
    /\ grants[i] <= lastRefill
    /\ (Len(grants) - i + 1) * OneToken + tokens
           <= BurstSize * OneToken + MaxRate * (lastRefill - grants[i])

BucketInv == \A i \in DOMAIN grants : SpentSince(i)

(* What a grant or a refill without one does to that account. *)
LEMMA AcquireKeepsAccount ==
  ASSUME BucketType, BucketInv, NEW t \in Threads, Acquire(t)
  PROVE  /\ BucketInv'
         /\ \/ grants' = grants
            \/ grants' = Append(grants, now) /\ lastRefill' = now
<1>1. /\ OneToken \in Nat /\ MaxRate \in Nat /\ BurstSize \in Nat
  BY LimiterAssumption
<1>2. BurstSize * OneToken \in Nat
  BY <1>1
<1>3. /\ RefillTokens \in Nat
      /\ RefillTokens <= BurstSize * OneToken
      /\ RefillTokens <= tokens + (now - lastRefill) * MaxRate
  BY Refilled
<1>4. /\ now \in Nat /\ lastRefill \in Nat /\ tokens \in Nat
      /\ grants \in Seq(Nat) /\ Len(grants) \in Nat
  BY DEF BucketType
<1>5. lastRefill' = now
  BY <1>1, LimiterAssumption DEF Acquire
<1>6. ASSUME NEW i \in 1 .. Len(grants)
      PROVE  (Len(grants) - i + 1) * OneToken + RefillTokens
                 <= BurstSize * OneToken + MaxRate * (now - grants[i])
  <2>1. SpentSince(i) /\ grants[i] \in Nat
    BY <1>4, <1>6 DEF BucketInv
  <2>2. MaxRate * (now - lastRefill) + MaxRate * (lastRefill - grants[i]) = MaxRate * (now - grants[i])
    BY <1>1, <1>4, <2>1, RateOverTwoStretches
  <2>3. (now - lastRefill) * MaxRate = MaxRate * (now - lastRefill)
    BY <1>1, <1>4
  <2> DEFINE spent  == (Len(grants) - i + 1) * OneToken
             earned == MaxRate * (lastRefill - grants[i])
             more   == MaxRate * (now - lastRefill)
             all    == MaxRate * (now - grants[i])
             burst  == BurstSize * OneToken
  <2>4. spent \in Int /\ earned \in Int /\ more \in Int /\ all \in Int /\ burst \in Int
    BY <1>1, <1>2, <1>4, <2>1
  <2>5. spent + tokens <= burst + earned /\ more + earned = all /\ RefillTokens <= tokens + more
    BY <1>3, <2>1, <2>2, <2>3 DEF SpentSince
  <2> HIDE DEF spent, earned, more, all, burst
  <2>6. spent + RefillTokens <= burst + all
    BY <1>3, <1>4, <2>4, <2>5
  <2>7. QED
    BY <2>6 DEF spent, all, burst
<1>7. \A i \in 1 .. Len(grants) : grants[i] \in Nat /\ grants[i] <= now
  BY <1>4 DEF BucketInv, SpentSince, BucketType
<1>8. CASE grants' = grants /\ tokens' = RefillTokens
  BY <1>4, <1>5, <1>6, <1>7, <1>8 DEF BucketInv, SpentSince
<1>9. CASE grants' = Append(grants, now) /\ tokens' = RefillTokens - OneToken
  <2>1. Len(grants') = Len(grants) + 1 /\ DOMAIN grants' = 1 .. Len(grants) + 1
    BY <1>4, <1>9
  <2>2. ASSUME NEW i \in 1 .. Len(grants)
        PROVE  SpentSince(i)'
    <3>1. grants'[i] = grants[i]
      BY <1>4, <1>9
    <3>2. (Len(grants') - i + 1) * OneToken = (Len(grants) - i + 1) * OneToken + OneToken
      BY <1>1, <1>4, <2>1, OneMoreToken
    <3> DEFINE spent == (Len(grants) - i + 1) * OneToken
               right == BurstSize * OneToken + MaxRate * (now - grants[i])
    <3>3. spent + RefillTokens <= right /\ spent \in Int /\ right \in Int
      BY <1>1, <1>2, <1>4, <1>6, <1>7
    <3>4. (Len(grants') - i + 1) * OneToken = spent + OneToken
      BY <3>2
    <3> HIDE DEF spent, right
    <3>5. (Len(grants') - i + 1) * OneToken + tokens' <= right
      BY <1>1, <1>3, <1>9, <3>3, <3>4
    <3>6. QED
      BY <1>5, <1>7, <3>1, <3>5 DEF SpentSince, right
  <2>3. ASSUME NEW i \in Nat, i = Len(grants) + 1
        PROVE  SpentSince(i)'
    <3>1. grants'[i] = now
      BY <1>4, <1>9, <2>3
    <3>2. (Len(grants') - i + 1) * OneToken = OneToken
      BY <1>1, <1>4, <2>1, <2>3
    <3>3. MaxRate * (now - now) = 0
      BY <1>1, <1>4
    <3>4. OneToken + tokens' <= BurstSize * OneToken + MaxRate * (now - now)
      BY <1>1, <1>2, <1>3, <1>9, <3>3
    <3>5. QED
      BY <1>4, <1>5, <3>1, <3>2, <3>4 DEF SpentSince
  <2>4. QED
    BY <1>4, <1>5, <1>9, <2>1, <2>2, <2>3 DEF BucketInv
<1>10. QED
  BY <1>8, <1>9 DEF Acquire

LEMMA NextBucketInv ==
  ASSUME BucketType, BucketInv, RequestsStayUnderTheRate, LimiterNext
  PROVE  BucketInv' /\ RequestsStayUnderTheRate'
<1>1. CASE UNCHANGED <<tokens, lastRefill, grants>>
  BY <1>1 DEF BucketInv, SpentSince, RequestsStayUnderTheRate
<1>2. ASSUME NEW t \in Threads, Acquire(t)
      PROVE  BucketInv' /\ RequestsStayUnderTheRate'
  <2>1. BucketType' /\ BucketInv'
    BY <1>2, NextBucketType, AcquireKeepsAccount
  <2>2. CASE grants' = grants
    BY <2>1, <2>2 DEF RequestsStayUnderTheRate
  <2>3. CASE grants' = Append(grants, now) /\ lastRefill' = now
    <3>1. /\ grants \in Seq(Nat) /\ Len(grants) \in Nat /\ now \in Nat /\ tokens' \in Nat
      BY <2>1 DEF BucketType
    <3>2. /\ Len(grants') = Len(grants) + 1
          /\ DOMAIN grants = 1 .. Len(grants) /\ DOMAIN grants' = 1 .. Len(grants) + 1
          /\ grants'[Len(grants) + 1] = now
          /\ \A i \in 1 .. Len(grants) : grants'[i] = grants[i]
      BY <2>3, <3>1
    <3>3. SUFFICES ASSUME NEW i \in 1 .. Len(grants) + 1, NEW j \in 1 .. Len(grants) + 1, i <= j
                   PROVE  (j - i + 1) * OneToken
                              <= BurstSize * OneToken + MaxRate * (grants'[j] - grants'[i])
      BY <2>1, <3>2 DEF RequestsStayUnderTheRate
    <3>4. CASE j \in 1 .. Len(grants)
      <4>1. i \in 1 .. Len(grants)
        BY <3>1, <3>3, <3>4
      <4>2. grants'[i] = grants[i] /\ grants'[j] = grants[j]
        BY <3>2, <3>4, <4>1
      <4>3. (j - i + 1) * OneToken <= BurstSize * OneToken + MaxRate * (grants[j] - grants[i])
        BY <3>2, <3>3, <3>4, <4>1 DEF RequestsStayUnderTheRate
      <4>4. QED
        BY <4>2, <4>3
    <3>5. CASE j = Len(grants) + 1
      <4>1. SpentSince(i)'
        BY <2>1, <3>2 DEF BucketInv
      <4>2. (j - i + 1) * OneToken + tokens'
                <= BurstSize * OneToken + MaxRate * (grants'[j] - grants'[i])
        BY <2>3, <3>2, <3>5, <4>1 DEF SpentSince
      <4>3. grants'[i] \in Nat /\ grants'[j] \in Nat
        <5>1. grants' \in Seq(Nat)
          BY <2>1 DEF BucketType
        <5>2. QED
          BY <3>1, <3>2, <5>1, ElementOfSeq
      <4>4. OneToken \in Nat /\ BurstSize \in Nat /\ MaxRate \in Nat
        BY LimiterAssumption
      <4>5. PICK left \in Int : left = (j - i + 1) * OneToken
        BY <3>1, <4>4
      <4>6. PICK right \in Int :
                right = BurstSize * OneToken + MaxRate * (grants'[j] - grants'[i])
        BY <4>3, <4>4
      <4>7. left + tokens' <= right /\ tokens' \in Nat
        BY <3>1, <4>2, <4>5, <4>6
      <4>8. left <= right
        BY <4>7, LessWithout
      <4>9. QED
        BY <4>5, <4>6, <4>8
    <3>6. QED
      BY <3>1, <3>4, <3>5
  <2>4. QED
    BY <1>2, <2>2, <2>3, AcquireKeepsAccount
<1>3. ASSUME NEW t \in Threads, WaitIfNeeded(t) \/ LookAgain(t) \/ OnSuccess(t) \/ SpeedUp(t)
                                \/ BackoffEnds(t) \/ SlowDown(t)
      PROVE  UNCHANGED <<tokens, lastRefill, grants>>
  BY <1>3 DEF WaitIfNeeded, LookAgain, OnSuccess, SpeedUp, BackoffEnds, SlowDown
<1>4. ASSUME NEW t \in Threads, NEW overload \in BOOLEAN, OnFailure(t, overload)
      PROVE  UNCHANGED <<tokens, lastRefill, grants>>
  BY <1>4 DEF OnFailure
<1>5. Tick => UNCHANGED <<tokens, lastRefill, grants>>
  BY DEF Tick, bucketVars
<1>6. QED
  BY <1>1, <1>2, <1>3, <1>4, <1>5 DEF LimiterNext

LimiterInv == BucketType /\ CallType /\ HolderInv /\ BucketInv /\ RequestsStayUnderTheRate

LEMMA InitLimiterInv == CollectionInit => LimiterInv
<1> SUFFICES ASSUME CollectionInit PROVE LimiterInv
  OBVIOUS
<1>1. grants = <<>> /\ limit = [t \in Threads |-> "idle"]
  BY DEF CollectionInit, InitLimiters
<1>2. DOMAIN grants = {}
  BY <1>1
<1>3. QED
  BY <1>1, <1>2, InitLimiterType DEF LimiterInv, HolderInv, BucketInv, RequestsStayUnderTheRate

LEMMA NextLimiterInv ==
  ASSUME LimiterInv, [CollectionNext]_<<now, bucketVars, loginLock, sessionVars>>
  PROVE  LimiterInv'
<1> USE DEF LimiterInv
<1>1. CASE LimiterNext
  BY <1>1, NextBucketType, NextCallType, NextHolderInv, NextBucketInv DEF CallType
<1>2. CASE UNCHANGED limiterVars
  BY <1>2 DEF limiterVars, bucketVars, BucketType, CallType, HolderInv, BucketInv, SpentSince,
              RequestsStayUnderTheRate
<1>3. QED
  BY <1>1, <1>2, LimiterSteps

-----------------------------------------------------------------------------
(* Runs, as records *)

RunFields ==
    {"pc", "back", "page", "attempt", "signals", "data", "seen", "sent", "answer", "room",
     "since", "calm", "missing", "rejected", "blocks", "overwritten", "unfounded"}

IsRun(r) == r = [f \in RunFields |-> r[f]]

LEMMA IdleIsRun == IsRun(Idle)
  BY DEF IsRun, RunFields, Idle

(* What a step may make of its run while it neither posts a password, asks  *)
(* the portal nor meets a failure: it starts afresh or keeps its account.   *)
Quiet(r, s) ==
    /\ IsRun(s)
    /\ s.pc \notin {"posted", "waiting", "answered", "failed"}
    /\ s.room => r.room
    /\ s.rejected = r.rejected \/ s.rejected = {}
    /\ s.unfounded => r.unfounded
    /\ s.blocks = r.blocks \/ s.blocks = 0
    /\ \/ s.signals = 0
       \/ s.signals = r.signals /\ s.blocks = r.blocks /\ (s.overwritten <=> r.overwritten)

LEMMA FinishedIsQuiet ==
  ASSUME NEW r, NEW q, NEW result, NEW data, result # "blocked"
  PROVE  Quiet(r, Finished(q, result, data))
  BY DEF Quiet, IsRun, RunFields, Finished, Idle

LEMMA FinishedBlocked ==
  ASSUME NEW r, NEW q, NEW data, q.overwritten \/ ~ (q.blocks < BlockThreshold)
  PROVE  Quiet(r, Finished(q, "blocked", data))
  BY DEF Quiet, IsRun, RunFields, Finished, Idle

LEMMA GoingIsQuiet ==
  ASSUME NEW r, IsRun(r), NEW pc \in {"page", "excel", "ensure", "login", "welcomed"}, NEW back
  PROVE  /\ Quiet(r, [r EXCEPT !.pc = pc])
         /\ Quiet(r, [r EXCEPT !.pc = pc, !.back = back])
  BY DEF Quiet, IsRun, RunFields

LEMMA CollectingIsQuiet ==
  ASSUME NEW r, IsRun(r), NEW t
  PROVE  Quiet(r, Collecting(r, t))
<1>1. \/ Collecting(r, t) = [r EXCEPT !.pc = "excel", !.back = None]
      \/ Collecting(r, t) = [r EXCEPT !.pc = "page", !.back = None]
  BY DEF Collecting
<1>2. /\ Quiet(r, [r EXCEPT !.pc = "excel", !.back = None])
      /\ Quiet(r, [r EXCEPT !.pc = "page", !.back = None])
  BY GoingIsQuiet
<1>3. QED
  BY <1>1, <1>2

LEMMA LoggedInIsQuiet ==
  ASSUME NEW r, IsRun(r), NEW t, NEW success
  PROVE  Quiet(r, LoggedIn(r, t, success))
<1>1. \/ LoggedIn(r, t, success) = [r EXCEPT !.pc = "page", !.back = None]
      \/ LoggedIn(r, t, success) = [r EXCEPT !.pc = "ensure", !.back = None]
      \/ LoggedIn(r, t, success) = Collecting(r, t)
      \/ LoggedIn(r, t, success) = Finished(r, "unauthenticated", {})
  BY DEF LoggedIn
<1>2. /\ Quiet(r, [r EXCEPT !.pc = "page", !.back = None])
      /\ Quiet(r, [r EXCEPT !.pc = "ensure", !.back = None])
  BY GoingIsQuiet
<1>3. QED
  BY <1>1, <1>2, CollectingIsQuiet, FinishedIsQuiet

LEMMA WithPageIsQuiet ==
  ASSUME NEW r, IsRun(r), NEW t, NEW rows
  PROVE  Quiet(r, WithPage(r, t, rows))
<1> DEFINE q == [r EXCEPT !.signals = 0, !.attempt = 1, !.blocks = 0, !.overwritten = FALSE]
           data == q.data \cup rows
<1>1. \/ \E result \in {"empty", "collected", "page_error", "truncated"} : \E d :
             WithPage(r, t, rows) = Finished(q, result, d)
      \/ WithPage(r, t, rows)
             = [q EXCEPT !.pc = "page", !.page = @ + 1, !.data = data, !.seen = @ \cup {rows}]
  BY DEF WithPage
<1>2. Quiet(r, [q EXCEPT !.pc = "page", !.page = @ + 1, !.data = data, !.seen = @ \cup {rows}])
  BY DEF Quiet, IsRun, RunFields
<1>3. QED
  BY <1>1, <1>2, FinishedIsQuiet

-----------------------------------------------------------------------------
(* What holds of every run *)

RunsType ==
    /\ run = [u \in Threads |-> run[u]]
    /\ \A u \in Threads : IsRun(run[u])

(* The signals a run has counted are its own answers, unless it was misled. *)
Sound(r) ==
    /\ r.signals \in Nat /\ r.blocks \in Nat
    /\ ~ r.unfounded
    /\ r.overwritten \/ r.signals <= r.blocks

Verdict(r) ==
    /\ r.signals \in Nat /\ r.blocks \in Nat
    /\ ~ r.unfounded
    /\ r.pc # "failed" => Sound(r)
    /\ r.pc = "failed" =>
           r.overwritten \/ failureKind # "block_suspect" \/ r.signals + 1 <= r.blocks

(* What was rejected is neither in the jar nor under way. *)
Rejects(r) ==
    /\ None \notin r.rejected
    /\ jar \notin r.rejected
    /\ r.pc = "waiting" => r.sent \notin r.rejected

RunsInv == RunsType /\ \A u \in Threads : Verdict(run[u]) /\ Rejects(run[u])

Posted == {t \in Threads : run[t].pc = "posted"}
Roomy  == {t \in Threads : run[t].room}

LEMMA QuietIsSound ==
  ASSUME NEW r, NEW s, Sound(r), Quiet(r, s)
  PROVE  Sound(s) /\ s.pc # "failed"
<1> USE DEF Sound, Quiet
<1>1. s.signals \in Nat /\ s.blocks \in Nat /\ ~ s.unfounded /\ s.pc # "failed"
  OBVIOUS
<1>2. s.overwritten \/ s.signals <= s.blocks
  <2>1. CASE s.signals = 0
    BY <1>1, <2>1
  <2>2. CASE s.signals = r.signals /\ s.blocks = r.blocks /\ (s.overwritten <=> r.overwritten)
    BY <2>2
  <2>3. QED
    BY <2>1, <2>2
<1>3. QED
  BY <1>1, <1>2

LEMMA QuietStep ==
  ASSUME RunsInv, NEW t \in Threads, NEW r, NEW s, Step(t, s), Quiet(r, s), Sound(r),
         r.rejected = run[t].rejected, r.room => run[t].room,
         failureKind' = failureKind, jar' = jar \/ jar' = None
  PROVE  RunsInv' /\ Posted' \subseteq Posted \ {t} /\ Roomy' \subseteq Roomy
<1>1. run' = [u \in Threads |-> IF u = t THEN s ELSE run[u]]
  BY DEF RunsInv, RunsType, Step
<1>2. IsRun(s) /\ Sound(s) /\ s.pc \notin {"failed", "waiting", "posted"}
  BY QuietIsSound DEF Quiet
<1>3. RunsType'
  BY <1>1, <1>2 DEF RunsInv, RunsType
<1>4. ASSUME NEW u \in Threads
      PROVE  Verdict(run[u])' /\ Rejects(run[u])'
  <2>1. Verdict(run[u]) /\ Rejects(run[u]) /\ Rejects(run[t])
    BY DEF RunsInv
  <2>2. CASE u = t
    <3>1. run'[u] = s
      BY <1>1, <2>2
    <3>2. Verdict(run[u])'
      BY <1>2, <3>1 DEF Verdict, Sound
    <3>3. Rejects(run[u])'
      BY <1>2, <2>1, <3>1 DEF Rejects, Quiet
    <3>4. QED
      BY <3>2, <3>3
  <2>3. CASE u # t
    <3>1. run'[u] = run[u]
      BY <1>1, <2>3
    <3>2. QED
      BY <2>1, <3>1 DEF Verdict, Sound, Rejects
  <2>4. QED
    BY <2>2, <2>3
<1>5. Posted' \subseteq Posted \ {t} /\ Roomy' \subseteq Roomy
  BY <1>1, <1>2 DEF Posted, Roomy, Quiet
<1>6. QED
  BY <1>3, <1>4, <1>5 DEF RunsInv

(* The common case: the step starts from the run as it is. *)
LEMMA QuietStepOfRun ==
  ASSUME RunsInv, NEW t \in Threads, run[t].pc # "failed",
         NEW s, Step(t, s), Quiet(run[t], s),
         failureKind' = failureKind, jar' = jar \/ jar' = None
  PROVE  RunsInv' /\ Posted' \subseteq Posted \ {t} /\ Roomy' \subseteq Roomy
<1>1. Sound(run[t])
  BY DEF RunsInv, Verdict
<1>2. QED
  BY <1>1, QuietStep

LEMMA LoginsKeepRuns ==
  ASSUME RunsInv, NEW t \in Threads,
         \/ StartRun(t) \/ EnsureAuthenticated(t) \/ LoginSucceeds(t) \/ LoginFails(t)
         \/ DownloadExcel(t)
  PROVE  RunsInv' /\ Posted' \subseteq Posted \ {t} /\ Roomy' \subseteq Roomy
<1>1. IsRun(run[t])
  BY DEF RunsInv, RunsType
<1>2. failureKind' = failureKind /\ jar' = jar
  BY DEF StartRun, EnsureAuthenticated, LoginSucceeds, LoginFails, DownloadExcel, answers, collector
<1>3. run[t].pc # "failed"
  BY DEF StartRun, EnsureAuthenticated, LoginSucceeds, LoginFails, DownloadExcel, In
<1>4. ASSUME StartRun(t)
      PROVE  \E s : Step(t, s) /\ Quiet(run[t], s)
  <2>1. PICK since : \/ Step(t, [[Idle EXCEPT !.since = since] EXCEPT !.pc = "login", !.back = "ensure"])
                     \/ Step(t, [[Idle EXCEPT !.since = since] EXCEPT !.pc = "ensure"])
    BY <1>4 DEF StartRun
  <2>2. /\ Quiet(run[t], [[Idle EXCEPT !.since = since] EXCEPT !.pc = "login", !.back = "ensure"])
        /\ Quiet(run[t], [[Idle EXCEPT !.since = since] EXCEPT !.pc = "ensure"])
    BY DEF Quiet, IsRun, RunFields, Idle
  <2>3. QED
    BY <2>1, <2>2
<1>5. ASSUME EnsureAuthenticated(t)
      PROVE  \E s : Step(t, s) /\ Quiet(run[t], s)
  <2>1. \/ Step(t, Collecting(run[t], t))
        \/ Step(t, [run[t] EXCEPT !.pc = "login", !.back = "collect"])
        \/ Step(t, Finished(run[t], "unauthenticated", {}))
    BY <1>5 DEF EnsureAuthenticated
  <2>2. Quiet(run[t], [run[t] EXCEPT !.pc = "login", !.back = "collect"])
    BY <1>1, GoingIsQuiet
  <2>3. QED
    BY <1>1, <2>1, <2>2, CollectingIsQuiet, FinishedIsQuiet
<1>6. ASSUME LoginSucceeds(t) \/ LoginFails(t)
      PROVE  \E s : Step(t, s) /\ Quiet(run[t], s)
  <2>1. Step(t, LoggedIn(run[t], t, TRUE)) \/ Step(t, LoggedIn(run[t], t, FALSE))
    BY <1>6 DEF LoginSucceeds, LoginFails
  <2>2. QED
    BY <1>1, <2>1, LoggedInIsQuiet
<1>7. ASSUME DownloadExcel(t)
      PROVE  \E s : Step(t, s) /\ Quiet(run[t], s)
  <2>1. \/ Step(t, Finished(run[t], "exported", DownloadExcelData))
        \/ Step(t, [run[t] EXCEPT !.pc = "page"])
    BY <1>7 DEF DownloadExcel, Goes
  <2>2. Quiet(run[t], [run[t] EXCEPT !.pc = "page"])
    BY <1>1, GoingIsQuiet
  <2>3. QED
    BY <2>1, <2>2, FinishedIsQuiet
<1>8. PICK s : Step(t, s) /\ Quiet(run[t], s)
  BY <1>4, <1>5, <1>6, <1>7
<1>9. QED
  BY <1>2, <1>3, <1>8, QuietStepOfRun

(* A step that carries the account of its run on. *)
Carries(r, s) ==
    /\ IsRun(s)
    /\ s.signals = r.signals /\ s.blocks = r.blocks
    /\ s.overwritten = r.overwritten /\ s.unfounded = r.unfounded
    /\ s.rejected = r.rejected

LEMMA CarryingStep ==
  ASSUME RunsInv, NEW t \in Threads, run[t].pc # "failed",
         NEW s, Step(t, s), Carries(run[t], s), s.pc # "failed", s.pc = "waiting" => s.sent = jar,
         failureKind' = failureKind, jar' = jar \/ jar' = None
  PROVE  /\ RunsInv'
         /\ Posted' \subseteq Posted \cup {t} /\ (s.pc # "posted" => Posted' \subseteq Posted)
         /\ Roomy' \subseteq Roomy \cup {t} /\ ((s.room => run[t].room) => Roomy' \subseteq Roomy)
<1>1. run' = [u \in Threads |-> IF u = t THEN s ELSE run[u]]
  BY DEF RunsInv, RunsType, Step
<1>2. RunsType'
  BY <1>1 DEF RunsInv, RunsType, Carries
<1>3. ASSUME NEW u \in Threads
      PROVE  Verdict(run[u])' /\ Rejects(run[u])'
  <2>1. Verdict(run[u]) /\ Rejects(run[u])
    BY DEF RunsInv
  <2>2. CASE u = t
    <3>1. run'[u] = s
      BY <1>1, <2>2
    <3>2. Verdict(run[u])'
      BY <2>1, <2>2, <3>1 DEF Verdict, Sound, Carries
    <3>3. Rejects(run[u])'
      BY <2>1, <2>2, <3>1 DEF Rejects, Carries
    <3>4. QED
      BY <3>2, <3>3
  <2>3. CASE u # t
    <3>1. run'[u] = run[u]
      BY <1>1, <2>3
    <3>2. QED
      BY <2>1, <3>1 DEF Verdict, Sound, Rejects
  <2>4. QED
    BY <2>2, <2>3
<1>4. QED
  BY <1>1, <1>2, <1>3 DEF RunsInv, Posted, Roomy

LEMMA AuthenticatingKeepsRuns ==
  ASSUME RunsInv, NEW t \in Threads, Authenticate(t)
  PROVE  /\ RunsInv' /\ Roomy' \subseteq Roomy
         /\ \/ Posted' \subseteq Posted
            \/ Posted' \subseteq Posted \cup {t} /\ lockedFor = 0
<1>1. IsRun(run[t]) /\ run[t].pc # "failed"
  BY DEF RunsInv, RunsType, Authenticate, In
<1>2. failureKind' = failureKind /\ (jar' = jar \/ jar' = None)
  BY DEF Authenticate, answers
<1>3. CASE Step(t, LoggedIn(run[t], t, LoginIsCached))
  BY <1>1, <1>2, <1>3, LoggedInIsQuiet, QuietStepOfRun
<1>4. CASE Goes(t, "posted") /\ AuthWaitIfNeeded
  <2> DEFINE s == [run[t] EXCEPT !.pc = "posted"]
  <2>1. Step(t, s) /\ lockedFor = 0
    BY <1>4 DEF Goes, AuthWaitIfNeeded
  <2>2. Carries(run[t], s) /\ s.pc = "posted" /\ s.room = run[t].room
    BY <1>1 DEF Carries, IsRun, RunFields
  <2> HIDE DEF s
  <2>3. QED
    BY <1>1, <1>2, <2>1, <2>2, CarryingStep
<1>5. QED
  BY <1>3, <1>4 DEF Authenticate

(* A new session is nobody's rejected one. *)
LEMMA LoggingInKeepsRuns ==
  ASSUME RunsInv, NEW t \in Threads, PortalLogsIn(t)
  PROVE  RunsInv' /\ Posted' \subseteq Posted /\ Roomy' \subseteq Roomy
<1> DEFINE place(u) == IF u = t THEN "welcomed" ELSE run[u].pc
           s(u) == [run[u] EXCEPT !.rejected = {}, !.pc = place(u)]
<1>1. run' = [u \in Threads |-> s(u)]
  <2>1. run' = [u \in Threads |-> [run[u] EXCEPT !.rejected = {}, !.pc = IF u = t THEN "welcomed" ELSE @]]
    BY DEF PortalLogsIn
  <2>2. \A u \in Threads : IsRun(run[u])
    BY DEF RunsInv, RunsType
  <2>3. \A u \in Threads :
            [run[u] EXCEPT !.rejected = {}, !.pc = IF u = t THEN "welcomed" ELSE @] = s(u)
    BY <2>2 DEF IsRun, RunFields
  <2>4. QED
    BY <2>1, <2>3
<1>2. failureKind' = failureKind /\ run[t].pc = "posted"
  BY DEF PortalLogsIn, answers, In
<1>3. ASSUME NEW u \in Threads
      PROVE  /\ IsRun(s(u)) /\ s(u).pc = place(u) /\ s(u).rejected = {}
             /\ s(u).room = run[u].room
             /\ s(u).signals = run[u].signals /\ s(u).blocks = run[u].blocks
             /\ s(u).overwritten = run[u].overwritten /\ s(u).unfounded = run[u].unfounded
  <2>1. IsRun(run[u])
    BY DEF RunsInv, RunsType
  <2> HIDE DEF place
  <2>2. QED
    BY <2>1 DEF IsRun, RunFields
<1>4. ASSUME NEW u \in Threads
      PROVE  Verdict(run[u])' /\ Rejects(run[u])'
  <2>1. Verdict(run[u]) /\ run'[u] = s(u) /\ (place(u) = "failed" <=> run[u].pc = "failed")
    BY <1>1, <1>2 DEF RunsInv
  <2> HIDE DEF s, place
  <2>2. Verdict(run[u])'
    BY <1>2, <1>3, <2>1 DEF Verdict, Sound
  <2>3. Rejects(run[u])'
    BY <1>3, <2>1 DEF Rejects
  <2>4. QED
    BY <2>2, <2>3
<1>5. RunsType'
  <2> HIDE DEF s
  <2>1. QED
    BY <1>1, <1>3 DEF RunsType
<1>6. Posted' \subseteq Posted
  <2>1. \A u \in Threads : place(u) = "posted" => run[u].pc = "posted"
    OBVIOUS
  <2> HIDE DEF s, place
  <2>2. QED
    BY <1>1, <1>3, <2>1 DEF Posted
<1>7. Roomy' \subseteq Roomy
  <2> HIDE DEF s, place
  <2>1. QED
    BY <1>1, <1>3 DEF Roomy
<1>8. QED
  BY <1>4, <1>5, <1>6, <1>7 DEF RunsInv

LEMMA AskingKeepsRuns ==
  ASSUME RunsInv, NEW t \in Threads, AskForPage(t)
  PROVE  RunsInv' /\ Posted' \subseteq Posted /\ Roomy' \subseteq Roomy
<1>1. IsRun(run[t]) /\ run[t].pc = "page"
  BY DEF RunsInv, RunsType, AskForPage, In
<1>2. failureKind' = failureKind /\ jar' = jar
  BY DEF AskForPage, answers, collector
<1>3. Sound(run[t])
  BY <1>1 DEF RunsInv, Verdict
<1>4. CASE \E rows : Step(t, WithPage([run[t] EXCEPT !.calm = FALSE], t, rows))
  <2> DEFINE r == [run[t] EXCEPT !.calm = FALSE]
  <2>1. PICK rows : Step(t, WithPage(r, t, rows))
    BY <1>4
  <2>2. /\ IsRun(r) /\ r.rejected = run[t].rejected /\ r.room = run[t].room
        /\ r.signals = run[t].signals /\ r.blocks = run[t].blocks
        /\ r.overwritten = run[t].overwritten /\ r.unfounded = run[t].unfounded
    BY <1>1 DEF IsRun, RunFields
  <2> HIDE DEF r
  <2>3. Sound(r)
    BY <1>3, <2>2 DEF Sound
  <2>4. Quiet(r, WithPage(r, t, rows))
    BY <2>2, WithPageIsQuiet
  <2>5. QED
    BY <1>2, <2>1, <2>2, <2>3, <2>4, QuietStep
<1>5. CASE Step(t, [run[t] EXCEPT !.pc = "waiting", !.sent = jar])
  <2> DEFINE s == [run[t] EXCEPT !.pc = "waiting", !.sent = jar]
  <2>1. Step(t, s)
    BY <1>5
  <2>2. Carries(run[t], s) /\ s.pc = "waiting" /\ s.sent = jar /\ s.room = run[t].room
    BY <1>1 DEF Carries, IsRun, RunFields
  <2> HIDE DEF s
  <2>3. QED
    BY <1>1, <1>2, <2>1, <2>2, CarryingStep
<1>6. QED
  BY <1>4, <1>5 DEF AskForPage

(* The archive is measured when an answer arrives: a run that finds room has  *)
(* seen it with a place left.                                                 *)
LEMMA AnsweringKeepsRuns ==
  ASSUME RunsInv, NEW t \in Threads, PortalAnswers(t) \/ PortalMisbehaves(t),
         archive \in Nat
  PROVE  /\ RunsInv' /\ Posted' \subseteq Posted
         /\ archive' \in Nat /\ archive' <= archive
         /\ Roomy' \subseteq Roomy \cup {t}
         /\ Roomy' \subseteq Roomy \/ archive' + 1 <= ArchiveCap
<1>1. IsRun(run[t]) /\ run[t].pc = "waiting"
  BY DEF RunsInv, RunsType, PortalAnswers, PortalMisbehaves, In
<1>2. PICK a : PageAnswered(t, a)
  BY DEF PortalAnswers, PortalMisbehaves
<1>3. PICK kept \in {0, archive} :
          /\ archive' = kept
          /\ Step(t, [run[t] EXCEPT !.pc = "answered", !.answer = a,
                                    !.room = IsAnswered(a) /\ HasArchiveCapacity(kept)])
  BY <1>2 DEF PageAnswered
<1>4. failureKind' = failureKind /\ jar' = jar
  BY <1>2 DEF PageAnswered, collector
<1> DEFINE room == IsAnswered(a) /\ HasArchiveCapacity(kept)
           s == [run[t] EXCEPT !.pc = "answered", !.answer = a, !.room = room]
<1>5. Step(t, s)
  BY <1>3
<1>6. Carries(run[t], s) /\ s.pc = "answered" /\ s.room = room
  BY <1>1 DEF Carries, IsRun, RunFields
<1>7. kept \in Nat /\ kept <= archive /\ (room => kept + 1 <= ArchiveCap)
  BY <1>3 DEF HasArchiveCapacity
<1> HIDE DEF s, room
<1>8. /\ RunsInv' /\ Posted' \subseteq Posted
      /\ Roomy' \subseteq Roomy \cup {t}
      /\ (s.room => run[t].room) => Roomy' \subseteq Roomy
  BY <1>1, <1>4, <1>5, <1>6, CarryingStep
<1>9. QED
  BY <1>3, <1>6, <1>7, <1>8

(* An answer is taken in: its kind of failure is written for all to read. *)
LEMMA ProcessingKeepsRuns ==
  ASSUME RunsInv, NEW t \in Threads, ProcessPage(t)
  PROVE  /\ RunsInv' /\ Posted' \subseteq Posted
         /\ Roomy' \subseteq Roomy \ {t}
         /\ archive' = IF t \in Roomy THEN archive + 1 ELSE archive
<1> DEFINE kind == FailureOf(run[t].answer)
           q == [run[t] EXCEPT !.answer = None, !.room = FALSE, !.sent = None]
           own == IF kind = "block_suspect" THEN q.blocks + 1 ELSE 0
           rejected == IF kind = "session_expired" THEN q.rejected \cup ({run[t].sent} \ {None})
                       ELSE q.rejected
           failed == [q EXCEPT !.pc = "failed", !.blocks = own, !.rejected = rejected]
           rows == ParseResponseData(run[t].answer)
           read == [q EXCEPT !.calm = @ /\ (rows # {} \/ run[t].answer.kind # "json")]
           page == WithPage(read, t, rows)
           s == IF kind = None THEN page ELSE failed
           other(u) == IF run[u].pc = "failed" /\ kind # failureKind
                       THEN [run[u] EXCEPT !.overwritten = TRUE] ELSE run[u]
<1>1. /\ RunsType /\ IsRun(run[t]) /\ run[t].pc = "answered"
      /\ Sound(run[t]) /\ Rejects(run[t])
  BY DEF RunsInv, RunsType, ProcessPage, In, Verdict
<1>2. run' = [u \in Threads |-> IF u = t THEN s ELSE other(u)]
  <2>1. CASE kind = None
    <3>1. run' = [Overwrites(t, kind) EXCEPT ![t] = page]
      BY <2>1 DEF ProcessPage
    <3>2. QED
      BY <2>1, <3>1 DEF Overwrites
  <2>2. CASE kind # None
    <3>1. run' = [Overwrites(t, kind) EXCEPT
                     ![t] = [q EXCEPT !.pc = "failed", !.blocks = own,
                                 !.rejected = IF kind = "session_expired"
                                              THEN @ \cup ({run[t].sent} \ {None}) ELSE @]]
      BY <2>2 DEF ProcessPage
    <3>2. run' = [Overwrites(t, kind) EXCEPT ![t] = failed]
      BY <3>1, <1>1 DEF IsRun, RunFields
    <3>3. QED
      BY <2>2, <3>2 DEF Overwrites
  <2>3. QED
    BY <2>1, <2>2
<1>3. /\ failureKind' = kind
      /\ archive' = IF run[t].room THEN archive + 1 ELSE archive
      /\ jar' = jar \/ jar' = None
      /\ kind # None /\ kind = "session_expired" => jar' = None
  <2>1. failureKind' = kind /\ archive' = IF run[t].room THEN archive + 1 ELSE archive
    BY DEF ProcessPage, ArchiveContent
  <2>2. CASE kind = None
    <3>1. jar' = jar
      BY <2>2 DEF ProcessPage, collector
    <3>2. QED
      BY <2>1, <2>2, <3>1
  <2>3. CASE kind # None
    BY <2>1, <2>3 DEF ProcessPage, collector, InvalidateSession
  <2>4. QED
    BY <2>2, <2>3
<1>4. /\ IsRun(q) /\ q.room = FALSE /\ q.rejected = run[t].rejected
      /\ q.signals = run[t].signals /\ q.blocks = run[t].blocks
      /\ q.overwritten = run[t].overwritten /\ q.unfounded = run[t].unfounded
  BY <1>1 DEF IsRun, RunFields
<1> HIDE DEF q
<1>5. /\ IsRun(failed) /\ failed.pc = "failed" /\ failed.room = FALSE
      /\ failed.rejected = rejected /\ failed.blocks = own
      /\ failed.signals = q.signals /\ failed.overwritten = q.overwritten
      /\ failed.unfounded = q.unfounded
  <2> HIDE DEF own, rejected
  <2>1. QED
    BY <1>4 DEF IsRun, RunFields
<1>6. /\ IsRun(read) /\ read.room = FALSE /\ read.rejected = q.rejected
      /\ read.signals = q.signals /\ read.blocks = q.blocks
      /\ read.overwritten = q.overwritten /\ read.unfounded = q.unfounded
  <2> HIDE DEF rows
  <2>1. QED
    BY <1>4 DEF IsRun, RunFields
<1> HIDE DEF read
<1>7. Quiet(read, page)
  BY <1>6, WithPageIsQuiet
<1>8. Sound(q) /\ Sound(page) /\ page.pc # "failed"
  <2>1. Sound(q) /\ Sound(read)
    BY <1>1, <1>4, <1>6 DEF Sound
  <2>2. QED
    BY <1>6, <1>7, <2>1, QuietIsSound
<1> HIDE DEF failed, page, kind
<1>9. Verdict(run[t])' /\ Rejects(run[t])' /\ IsRun(s) /\ s.pc # "posted" /\ ~ s.room
  <2>1. CASE kind = None
    <3>1. s = page /\ run'[t] = page
      BY <1>2, <2>1
    <3>2. IsRun(page) /\ page.pc \notin {"posted", "waiting"} /\ ~ page.room
      BY <1>6, <1>7 DEF Quiet
    <3>3. page.rejected = run[t].rejected \/ page.rejected = {}
      BY <1>4, <1>6, <1>7 DEF Quiet
    <3>4. Verdict(run[t])'
      BY <1>8, <3>1, <3>2 DEF Verdict, Sound
    <3>5. Rejects(run[t])'
      BY <1>1, <1>3, <3>1, <3>2, <3>3 DEF Rejects
    <3>6. QED
      BY <3>1, <3>2, <3>4, <3>5
  <2>2. CASE kind # None
    <3>1. s = failed /\ run'[t] = failed
      BY <1>2, <2>2
    <3>2. Verdict(run[t])'
      <4>1. kind = "block_suspect" => own = q.blocks + 1
        OBVIOUS
      <4>2. own \in Nat
        BY <1>8 DEF Sound
      <4> HIDE DEF own
      <4>3. QED
        BY <1>3, <1>5, <1>8, <3>1, <4>1, <4>2 DEF Verdict, Sound
    <3>3. Rejects(run[t])'
      BY <1>1, <1>3, <1>4, <1>5, <2>2, <3>1 DEF Rejects
    <3>4. QED
      BY <1>5, <3>1, <3>2, <3>3
  <2>3. QED
    BY <2>1, <2>2
<1>10. ASSUME NEW u \in Threads, u # t
       PROVE  /\ Verdict(run[u])' /\ Rejects(run[u])' /\ run'[u] = other(u)
              /\ IsRun(other(u)) /\ other(u).pc = run[u].pc /\ other(u).room = run[u].room
  <2>1. IsRun(run[u]) /\ Verdict(run[u]) /\ Rejects(run[u])
    BY DEF RunsInv, RunsType
  <2>2. CASE run[u].pc = "failed" /\ kind # failureKind
    <3> DEFINE o == [run[u] EXCEPT !.overwritten = TRUE]
    <3>1. other(u) = o /\ run'[u] = o
      BY <1>2, <1>10, <2>2
    <3>2. /\ IsRun(o) /\ o.pc = run[u].pc /\ o.room = run[u].room
          /\ o.signals = run[u].signals /\ o.blocks = run[u].blocks
          /\ o.overwritten /\ o.unfounded = run[u].unfounded /\ o.rejected = run[u].rejected
      BY <2>1 DEF IsRun, RunFields
    <3> HIDE DEF o, other
    <3>3. Verdict(run[u])'
      BY <2>1, <2>2, <3>1, <3>2 DEF Verdict
    <3>4. Rejects(run[u])'
      BY <1>3, <2>1, <2>2, <3>1, <3>2 DEF Rejects
    <3>5. QED
      BY <3>1, <3>2, <3>3, <3>4
  <2>3. CASE ~ (run[u].pc = "failed" /\ kind # failureKind)
    <3>1. other(u) = run[u] /\ run'[u] = run[u]
      BY <1>2, <1>10, <2>3
    <3> HIDE DEF other
    <3>2. Verdict(run[u])'
      BY <1>3, <2>1, <2>3, <3>1 DEF Verdict, Sound
    <3>3. Rejects(run[u])'
      BY <1>3, <2>1, <2>3, <3>1 DEF Rejects
    <3>4. QED
      BY <2>1, <3>1, <3>2, <3>3
  <2>4. QED
    BY <2>2, <2>3
<1> HIDE DEF s, other
<1>11. RunsInv'
  BY <1>2, <1>9, <1>10 DEF RunsInv, RunsType
<1>12. Posted' \subseteq Posted /\ Roomy' \subseteq Roomy \ {t}
  BY <1>2, <1>9, <1>10 DEF Posted, Roomy
<1>13. QED
  BY <1>3, <1>11, <1>12 DEF Roomy

(* The backoff is over: the run reads the kind of failure, its own or the one *)
(* another run has written over it since.                                     *)
LEMMA RetryingKeepsRuns ==
  ASSUME RunsInv, NEW t \in Threads, RetryPage(t)
  PROVE  RunsInv' /\ Posted' \subseteq Posted /\ Roomy' \subseteq Roomy
<1> DEFINE signals == Signals(run[t])
           misled == signals > 0 /\ run[t].overwritten
           r == [run[t] EXCEPT !.signals = signals, !.overwritten = misled]
           again == [r EXCEPT !.attempt = @ + 1, !.pc = "page"]
           login == [again EXCEPT !.pc = "login", !.back = "page"]
<1>1. /\ IsRun(run[t]) /\ run[t].pc = "failed" /\ Verdict(run[t])
      /\ failureKind' = failureKind /\ jar' = jar
  BY DEF RunsInv, RunsType, RetryPage, In, answers, collector
<1>2. /\ run[t].signals \in Nat /\ run[t].blocks \in Nat /\ ~ run[t].unfounded
      /\ \/ run[t].overwritten
         \/ failureKind # "block_suspect"
         \/ run[t].signals + 1 <= run[t].blocks
  BY <1>1 DEF Verdict
<1>3. signals \in Nat /\ (misled \/ signals <= run[t].blocks)
  <2>1. CASE failureKind = "block_suspect"
    <3>1. signals = run[t].signals + 1 /\ signals > 0
      BY <1>2, <2>1 DEF Signals
    <3>2. QED
      BY <1>2, <2>1, <3>1
  <2>2. CASE failureKind # "block_suspect"
    <3>1. signals = 0
      BY <2>2 DEF Signals
    <3>2. QED
      BY <1>2, <3>1
  <2>3. QED
    BY <2>1, <2>2
<1>4. \/ signals >= BlockThreshold /\ Step(t, Finished(r, "blocked", {}))
      \/ Step(t, Finished(r, "page_error", {}))
      \/ Step(t, login)
      \/ Step(t, again)
  BY DEF RetryPage
<1>5. r = [run[t] EXCEPT !.signals = signals, !.overwritten = misled]
  OBVIOUS
<1> HIDE DEF signals, misled, r
<1>6. /\ IsRun(r) /\ r.signals = signals /\ (r.overwritten <=> misled)
      /\ r.blocks = run[t].blocks /\ r.unfounded = run[t].unfounded
      /\ r.rejected = run[t].rejected /\ r.room = run[t].room
  BY <1>1, <1>5 DEF IsRun, RunFields
<1>7. Sound(r)
  BY <1>2, <1>3, <1>6 DEF Sound
<1>8. Quiet(r, again) /\ Quiet(r, login)
  BY <1>6 DEF Quiet, IsRun, RunFields
<1>9. Quiet(r, Finished(r, "page_error", {}))
  BY FinishedIsQuiet
<1>10. signals >= BlockThreshold => Quiet(r, Finished(r, "blocked", {}))
  <2>1. SUFFICES ASSUME signals >= BlockThreshold
                 PROVE  r.overwritten \/ ~ (r.blocks < BlockThreshold)
    BY FinishedBlocked
  <2>2. BlockThreshold \in Nat
    BY SessionAssumption
  <2>3. CASE misled
    BY <1>6, <2>3
  <2>4. CASE signals <= run[t].blocks
    BY <1>2, <1>3, <1>6, <2>1, <2>2, <2>4
  <2>5. QED
    BY <1>3, <2>3, <2>4
<1> HIDE DEF again, login
<1>11. PICK s : Step(t, s) /\ Quiet(r, s)
  BY <1>4, <1>8, <1>9, <1>10
<1>12. RunsInv' /\ Posted' \subseteq Posted \ {t} /\ Roomy' \subseteq Roomy
  BY <1>1, <1>6, <1>7, <1>11, QuietStep
<1>13. QED
  BY <1>12

(* Whatever leaves the runs, the jar and the kind of failure alone. *)
LEMMA RunsStay ==
  ASSUME RunsInv, UNCHANGED <<run, jar, failureKind>>
  PROVE  RunsInv' /\ Posted' = Posted /\ Roomy' = Roomy
  BY DEF RunsInv, RunsType, Verdict, Sound, Rejects, Posted, Roomy

(* The portal, time and the limiters are about something else. *)
Elsewhere ==
    \/ DropSessions \/ PasswordExpires \/ Publish \/ TimePasses
    \/ LimiterNext /\ UNCHANGED sessionVars
    \/ UNCHANGED <<loginLock, sessionVars>>

LEMMA ElsewhereRunsStay ==
  ASSUME Elsewhere
  PROVE  UNCHANGED <<run, jar, failureKind, archive>>
  BY DEF Elsewhere, DropSessions, PasswordExpires, Publish, TimePasses, sessionVars, collector, answers

sessionsAndLimiters == <<now, bucketVars, loginLock, sessionVars>>

(* A step is one of a thread, or about something else. *)
LEMMA SessionSteps ==
  ASSUME [CollectionNext]_sessionsAndLimiters
  PROVE  \/ Elsewhere
         \/ \E t \in Threads :
                \/ StartRun(t) \/ EnsureAuthenticated(t) \/ Authenticate(t)
                \/ PortalLogsIn(t) \/ LoginSucceeds(t) \/ LoginFails(t)
                \/ DownloadExcel(t) \/ AskForPage(t)
                \/ PortalAnswers(t) \/ PortalMisbehaves(t) \/ ProcessPage(t)
                \/ RetryPage(t)
  BY DEF CollectionNext, SessionNext, sessionsAndLimiters, Elsewhere

LEMMA InitRunsInv == CollectionInit => RunsInv /\ Posted = {} /\ Roomy = {}
<1> SUFFICES ASSUME CollectionInit
             PROVE  RunsInv /\ Posted = {} /\ Roomy = {}
  OBVIOUS
<1>1. run = [t \in Threads |-> Idle] /\ jar = None
  BY DEF CollectionInit, InitSession
<1>2. /\ Idle.pc = "idle" /\ Idle.room = FALSE /\ Idle.rejected = {}
      /\ Idle.signals = 0 /\ Idle.blocks = 0 /\ Idle.unfounded = FALSE
  BY DEF Idle
<1>3. QED
  BY <1>1, <1>2, IdleIsRun DEF RunsInv, RunsType, Verdict, Sound, Rejects, Posted, Roomy

LEMMA NextRunsInv ==
  ASSUME RunsInv, archive \in Nat, [CollectionNext]_sessionsAndLimiters
  PROVE  RunsInv'
<1>1. CASE Elsewhere
  BY <1>1, RunsStay, ElsewhereRunsStay
<1>2. ASSUME NEW t \in Threads,
             \/ StartRun(t) \/ EnsureAuthenticated(t) \/ Authenticate(t)
             \/ PortalLogsIn(t) \/ LoginSucceeds(t) \/ LoginFails(t)
             \/ DownloadExcel(t) \/ AskForPage(t)
             \/ PortalAnswers(t) \/ PortalMisbehaves(t) \/ ProcessPage(t)
             \/ RetryPage(t)
      PROVE  RunsInv'
  BY <1>2, LoginsKeepRuns, AuthenticatingKeepsRuns, LoggingInKeepsRuns, AskingKeepsRuns,
     AnsweringKeepsRuns, ProcessingKeepsRuns, RetryingKeepsRuns
<1>3. QED
  BY <1>1, <1>2, SessionSteps

-----------------------------------------------------------------------------
(* The archive *)

(* Every run that has seen room may still write one answer. *)
ArchiveInv ==
    /\ archive \in Nat
    /\ archive + Cardinality(Roomy) <= ArchiveCap + Cardinality(Threads) - 1

LEMMA FewerInPart ==
  ASSUME NEW S, IsFiniteSet(S), NEW T, T \subseteq S
  PROVE  /\ IsFiniteSet(T) /\ Cardinality(T) \in Nat /\ Cardinality(S) \in Nat
         /\ Cardinality(T) <= Cardinality(S)
  BY FS_Subset, FS_CardinalityType

LEMMA FewerWithout ==
  ASSUME NEW S, IsFiniteSet(S), NEW x \in S, NEW T, T \subseteq S \ {x}
  PROVE  Cardinality(T) \in Nat /\ Cardinality(T) <= Cardinality(S) - 1
<1>1. IsFiniteSet(S \ {x}) /\ Cardinality(S \ {x}) = Cardinality(S) - 1
  BY FS_RemoveElement
<1>2. QED
  BY <1>1, FewerInPart

LEMMA ThreadsAreCounted ==
  /\ IsFiniteSet(Threads) /\ Cardinality(Threads) \in Nat /\ Cardinality(Threads) >= 1
  /\ \A S : S \subseteq Threads => /\ IsFiniteSet(S) /\ Cardinality(S) \in Nat
                                   /\ Cardinality(S) <= Cardinality(Threads)
<1>1. IsFiniteSet(Threads) /\ Threads # {}
  BY ThreadAssumption
<1>2. Cardinality(Threads) \in Nat /\ Cardinality(Threads) # 0
  BY <1>1, FS_CardinalityType, FS_EmptySet
<1>3. QED
  BY <1>1, <1>2, FewerInPart

LEMMA InitArchiveInv == CollectionInit => ArchiveInv
<1> SUFFICES ASSUME CollectionInit
             PROVE  ArchiveInv
  OBVIOUS
<1>1. archive = 0 /\ Roomy = {}
  BY InitRunsInv DEF CollectionInit, InitSession
<1>2. ArchiveCap \in Nat
  BY SessionAssumption
<1>3. Cardinality(Roomy) = 0
  BY <1>1, FS_EmptySet
<1>4. QED
  BY <1>1, <1>2, <1>3, ThreadsAreCounted DEF ArchiveInv

LEMMA LessRoom ==
  ASSUME ArchiveInv, Roomy' \subseteq Roomy, archive' \in Nat, archive' <= archive
  PROVE  ArchiveInv'
<1>1. Roomy \subseteq Threads /\ Roomy' \subseteq Threads
  BY DEF Roomy
<1>2. Cardinality(Roomy) \in Nat /\ Cardinality(Roomy') \in Nat
      /\ Cardinality(Roomy') <= Cardinality(Roomy)
  BY <1>1, ThreadsAreCounted, FewerInPart
<1>3. ArchiveCap \in Nat
  BY SessionAssumption
<1>4. QED
  BY <1>2, <1>3, ThreadsAreCounted DEF ArchiveInv

LEMMA NextArchiveInv ==
  ASSUME RunsInv, ArchiveInv, [CollectionNext]_sessionsAndLimiters
  PROVE  ArchiveInv'
<1>1. archive \in Nat /\ ArchiveCap \in Nat /\ Roomy \subseteq Threads /\ Roomy' \subseteq Threads
  BY SessionAssumption DEF ArchiveInv, Roomy
<1>2. CASE Elsewhere
  BY <1>1, <1>2, RunsStay, ElsewhereRunsStay, LessRoom
<1>3. ASSUME NEW t \in Threads,
             \/ StartRun(t) \/ EnsureAuthenticated(t) \/ Authenticate(t)
             \/ PortalLogsIn(t) \/ LoginSucceeds(t) \/ LoginFails(t)
             \/ DownloadExcel(t) \/ AskForPage(t) \/ RetryPage(t)
      PROVE  ArchiveInv'
  <2>1. archive' = archive
    <3>1. StartRun(t) \/ EnsureAuthenticated(t) \/ Authenticate(t) => UNCHANGED answers
      BY DEF StartRun, EnsureAuthenticated, Authenticate
    <3>2. PortalLogsIn(t) => UNCHANGED answers
      BY Zenon DEF PortalLogsIn
    <3>5. LoginSucceeds(t) \/ LoginFails(t) => UNCHANGED answers
      BY DEF LoginSucceeds, LoginFails
    <3>3. DownloadExcel(t) \/ AskForPage(t) \/ RetryPage(t) => UNCHANGED answers
      BY DEF DownloadExcel, AskForPage, RetryPage
    <3>4. QED
      BY <1>3, <3>1, <3>2, <3>3, <3>5 DEF answers
  <2>2. Roomy' \subseteq Roomy
    BY <1>3, LoginsKeepRuns, AuthenticatingKeepsRuns, LoggingInKeepsRuns, AskingKeepsRuns,
       RetryingKeepsRuns
  <2>3. QED
    BY <1>1, <2>1, <2>2, LessRoom
<1>4. ASSUME NEW t \in Threads, PortalAnswers(t) \/ PortalMisbehaves(t)
      PROVE  ArchiveInv'
  <2>1. /\ archive' \in Nat /\ archive' <= archive
        /\ Roomy' \subseteq Roomy \/ archive' + 1 <= ArchiveCap
    BY <1>1, <1>4, AnsweringKeepsRuns
  <2>2. CASE Roomy' \subseteq Roomy
    BY <2>1, <2>2, LessRoom
  <2>3. CASE archive' + 1 <= ArchiveCap
    <3>1. Cardinality(Roomy') \in Nat /\ Cardinality(Roomy') <= Cardinality(Threads)
      BY <1>1, ThreadsAreCounted
    <3>2. Cardinality(Threads) \in Nat
      BY ThreadsAreCounted
    <3>3. archive' + Cardinality(Roomy') <= ArchiveCap + Cardinality(Threads) - 1
      BY <1>1, <2>1, <2>3, <3>1, <3>2, RoomForAll
    <3>4. QED
      BY <2>1, <3>3 DEF ArchiveInv
  <2>4. QED
    BY <2>1, <2>2, <2>3
<1>5. ASSUME NEW t \in Threads, ProcessPage(t)
      PROVE  ArchiveInv'
  <2>1. Roomy' \subseteq Roomy \ {t} /\ archive' = IF t \in Roomy THEN archive + 1 ELSE archive
    BY <1>5, ProcessingKeepsRuns
  <2>2. CASE t \in Roomy
    <3>1. IsFiniteSet(Roomy) /\ Cardinality(Roomy) \in Nat
      BY <1>1, ThreadsAreCounted
    <3>2. Cardinality(Roomy') \in Nat /\ Cardinality(Roomy') <= Cardinality(Roomy) - 1
      BY <2>1, <2>2, <3>1, FewerWithout
    <3>3. QED
      BY <1>1, <2>1, <2>2, <3>1, <3>2, ThreadsAreCounted DEF ArchiveInv
  <2>3. CASE t \notin Roomy
    BY <1>1, <2>1, <2>3, LessRoom
  <2>4. QED
    BY <2>2, <2>3
<1>6. QED
  BY <1>2, <1>3, <1>4, <1>5, SessionSteps

-----------------------------------------------------------------------------
(* The failed logins *)

FailsType ==
    /\ fails \in Seq([age : 0 .. Lockout, apart : 0 .. Lockout])
    /\ lockedFor \in 0 .. Lockout
    /\ consecutive = IF Len(fails) < MaxAttempts THEN Len(fails) ELSE MaxAttempts

(* While a failure that locked is younger than the lockout, the lock holds,   *)
(* and only who had posted a password before may fail after it.               *)
Locks(j) ==
    /\ Lockout - fails[j].age <= lockedFor
    /\ (Len(fails) - j) + Cardinality(Posted) <= Cardinality(Threads) - 1

LockInv == \A j \in DOMAIN fails : MaxAttempts <= j /\ fails[j].age < Lockout => Locks(j)

LoginInv == FailsType /\ LockInv /\ LoginsAreLimited

LEMMA PostedAreCounted ==
  /\ IsFiniteSet(Posted) /\ Cardinality(Posted) \in Nat
  /\ Cardinality(Posted) <= Cardinality(Threads)
  BY ThreadsAreCounted DEF Posted

LEMMA LimitsAreCounted ==
  MaxAttempts \in Nat /\ MaxAttempts >= 1 /\ Lockout \in Nat /\ Lockout >= 1
  BY LimiterAssumption

LEMMA InitLoginInv == CollectionInit => LoginInv
<1> SUFFICES ASSUME CollectionInit
             PROVE  LoginInv
  OBVIOUS
<1>1. fails = <<>> /\ lockedFor = 0 /\ consecutive = 0
  BY DEF CollectionInit, InitSession, InitLimiters
<1>2. Len(fails) = 0 /\ DOMAIN fails = {}
  BY <1>1
<1>3. FailsType
  BY <1>1, <1>2, LimitsAreCounted DEF FailsType
<1>4. QED
  BY <1>2, <1>3 DEF LoginInv, LockInv, LoginsAreLimited

(* Steps that leave the lock and the history alone. *)
LEMMA LockStays ==
  ASSUME LoginInv, UNCHANGED <<fails, loginLock>>,
         \/ Posted' \subseteq Posted
         \/ lockedFor = 0
  PROVE  LoginInv'
<1>1. UNCHANGED <<fails, consecutive, lockedFor>>
  BY DEF loginLock
<1>2. FailsType' /\ LoginsAreLimited'
  BY <1>1 DEF LoginInv, FailsType, LoginsAreLimited
<1>3. fails \in Seq([age : 0 .. Lockout, apart : 0 .. Lockout])
  BY DEF LoginInv, FailsType
<1>4. ASSUME NEW j \in DOMAIN fails, MaxAttempts <= j, fails[j].age < Lockout
      PROVE  Locks(j)'
  <2>1. Locks(j)
    BY <1>4 DEF LoginInv, LockInv
  <2>2. fails[j].age \in Nat /\ fails[j].age < Lockout
    <3> DEFINE S == [age : 0 .. Lockout, apart : 0 .. Lockout]
    <3>1. fails \in Seq(S)
      BY <1>3
    <3>2. S = [age : 0 .. Lockout, apart : 0 .. Lockout]
      OBVIOUS
    <3> HIDE DEF S
    <3>3. fails[j] \in S
      BY <3>1
    <3>4. QED
      BY <1>4, <3>2, <3>3, LimitsAreCounted
  <2>3. lockedFor # 0
    BY <2>1, <2>2, LimitsAreCounted DEF Locks
  <2>4. /\ Cardinality(Posted) \in Nat /\ Cardinality(Posted') \in Nat
        /\ Cardinality(Posted') <= Cardinality(Posted)
    BY <2>3, PostedAreCounted, FewerInPart
  <2>5. Len(fails) - j \in Int
    BY <1>3, <1>4
  <2>6. QED
    BY <1>1, <2>1, <2>4, <2>5, ThreadsAreCounted DEF Locks
<1>5. QED
  BY <1>1, <1>2, <1>4 DEF LoginInv, LockInv

LEMMA FailsAreTyped ==
  ASSUME FailsType, NEW j \in DOMAIN fails
  PROVE  /\ j \in Nat /\ 1 <= j /\ j <= Len(fails) /\ Len(fails) \in Nat
         /\ fails[j] = [age |-> fails[j].age, apart |-> fails[j].apart]
         /\ fails[j].age \in 0 .. Lockout /\ fails[j].apart \in 0 .. Lockout
<1> DEFINE S == [age : 0 .. Lockout, apart : 0 .. Lockout]
<1>1. fails \in Seq(S)
  BY DEF FailsType
<1>2. \A f \in S : /\ f = [age |-> f.age, apart |-> f.apart]
                   /\ f.age \in 0 .. Lockout /\ f.apart \in 0 .. Lockout
  OBVIOUS
<1> HIDE DEF S
<1>3. fails[j] \in S /\ j \in 1 .. Len(fails) /\ Len(fails) \in Nat
  BY <1>1
<1>4. QED
  BY <1>2, <1>3

(* A login that fails: the new failure is young, and if the one of as many    *)
(* threads ago were young too, all of them would have posted under its lock.  *)
LEMMA FailingIsLimited ==
  ASSUME LoginInv, NEW t \in Posted, Posted' \subseteq Posted \ {t}, LoginFails(t)
  PROVE  LoginInv'
<1> DEFINE N == Cardinality(Threads)
           n == Len(fails)
           k == n + 1 - N
           apart == IF k > 0 THEN fails[k].age ELSE Lockout
           S == [age : 0 .. Lockout, apart : 0 .. Lockout]
<1>1. FailsType /\ LockInv /\ LoginsAreLimited
  BY DEF LoginInv
<1>2. /\ N \in Nat /\ N >= 1 /\ n \in Nat /\ k \in Int /\ k <= n
      /\ MaxAttempts \in Nat /\ MaxAttempts >= 1 /\ Lockout \in Nat /\ Lockout >= 1
  <2>1. fails \in Seq(S)
    BY <1>1 DEF FailsType
  <2> HIDE DEF S
  <2>2. n \in Nat
    BY <2>1
  <2>3. N \in Nat /\ N >= 1
    BY ThreadsAreCounted
  <2> HIDE DEF n, N
  <2>4. k \in Int /\ k <= n
    BY <2>2, <2>3
  <2>5. QED
    BY <2>2, <2>3, <2>4, LimitsAreCounted
<1>3. fails' = Append(fails, [age |-> 0, apart |-> apart])
  BY DEF LoginFails
<1>4. fails \in Seq(S) /\ DOMAIN fails = 1 .. n
  BY <1>1 DEF FailsType
<1>5. apart \in 0 .. Lockout
  BY <1>1, <1>2, <1>4, FailsAreTyped
<1>6. [age |-> 0, apart |-> apart] \in S
  BY <1>2, <1>5
<1>7. /\ Cardinality(Posted) \in Nat /\ Cardinality(Posted') \in Nat
      /\ Cardinality(Posted') <= Cardinality(Posted) - 1 /\ Cardinality(Posted) <= N
  BY PostedAreCounted, FewerWithout
<1>8. /\ consecutive = IF n < MaxAttempts THEN n ELSE MaxAttempts
      /\ lockedFor \in 0 .. Lockout
  BY <1>1 DEF FailsType
<1>9. /\ consecutive' = IF n + 1 < MaxAttempts THEN n + 1 ELSE MaxAttempts
      /\ lockedFor' = IF n + 1 >= MaxAttempts THEN Lockout ELSE lockedFor
  <2>1. /\ consecutive' = Min({MaxAttempts, consecutive + 1})
        /\ lockedFor' = IF consecutive + 1 >= MaxAttempts THEN Lockout ELSE lockedFor
    BY DEF LoginFails, AuthOnFailure
  <2>2. consecutive \in Nat
    BY <1>2, <1>8
  <2>3. Min({MaxAttempts, consecutive + 1})
            = IF MaxAttempts <= consecutive + 1 THEN MaxAttempts ELSE consecutive + 1
    BY <1>2, <2>2, MinOfTwo
  <2>4. QED
    BY <1>2, <1>8, <2>1, <2>2, <2>3
<1> HIDE DEF S, apart
<1>10. /\ fails' \in Seq(S) /\ Len(fails') = n + 1 /\ DOMAIN fails' = 1 .. n + 1
       /\ \A j \in 1 .. n : fails'[j] = fails[j]
       /\ fails'[n + 1] = [age |-> 0, apart |-> apart]
  BY <1>3, <1>4, <1>6
<1>11. FailsType'
  <2>1. lockedFor' \in 0 .. Lockout
    BY <1>2, <1>8, <1>9
  <2>2. QED
    BY <1>9, <1>10, <2>1 DEF FailsType, S
<1>12. ASSUME NEW j \in DOMAIN fails', MaxAttempts <= j, fails'[j].age < Lockout
       PROVE  Locks(j)'
  <2>1. j \in Nat /\ 1 <= j /\ j <= n + 1
    BY <1>2, <1>10
  <2>2. lockedFor' = Lockout
    BY <1>2, <1>9, <1>12, <2>1
  <2>3. CASE j = n + 1
    <3>1. fails'[j].age = 0
      BY <1>10, <2>3
    <3>2. (n + 1 - j) + Cardinality(Posted') <= N - 1
      BY <1>2, <1>7, <2>3
    <3>3. QED
      BY <1>2, <1>10, <2>2, <3>1, <3>2 DEF Locks
  <2>4. CASE j <= n
    <3>1. fails'[j] = fails[j] /\ j \in DOMAIN fails
      BY <1>2, <1>4, <1>10, <2>1, <2>4
    <3>2. Locks(j)
      BY <1>1, <1>12, <3>1 DEF LockInv
    <3>3. (n - j) + Cardinality(Posted) <= N - 1
      BY <3>2 DEF Locks
    <3>4. (n + 1 - j) + Cardinality(Posted') <= N - 1
      BY <1>2, <1>7, <2>1, <3>3, OneFewerIsLeft
    <3>5. fails[j].age \in Nat
      BY <1>1, <1>2, <3>1, FailsAreTyped
    <3>6. Lockout - fails'[j].age <= lockedFor'
      BY <1>2, <2>2, <3>1, <3>5
    <3>7. QED
      BY <1>10, <3>4, <3>6 DEF Locks
  <2>5. QED
    BY <1>2, <2>1, <2>3, <2>4
<1>13. LockInv'
  BY <1>12 DEF LockInv
<1>14. ASSUME NEW j \in DOMAIN fails', j >= MaxAttempts + N
       PROVE  fails'[j].apart >= Lockout
  <2>1. j \in Nat /\ 1 <= j /\ j <= n + 1
    BY <1>2, <1>10
  <2>2. CASE j <= n
    BY <1>1, <1>2, <1>4, <1>10, <1>14, <2>1, <2>2 DEF LoginsAreLimited
  <2>3. CASE j = n + 1
    <3>1. k > 0 /\ k >= MaxAttempts /\ k \in DOMAIN fails
      BY <1>2, <1>4, <1>14, <2>3
    <3>2. fails'[j].apart = fails[k].age
      BY <1>10, <2>3, <3>1 DEF apart
    <3>3. fails[k].age \in 0 .. Lockout
      BY <1>1, <3>1, FailsAreTyped
    <3>4. ASSUME fails[k].age < Lockout PROVE FALSE
      <4>1. Locks(k)
        BY <1>1, <3>1, <3>4 DEF LockInv
      <4>2. (n - k) + Cardinality(Posted) <= N - 1
        BY <4>1 DEF Locks
      <4>3. n - k = N - 1
        BY <1>2
      <4>4. QED
        BY <1>2, <1>7, <4>2, <4>3, NobodyIsLeft
    <3>5. QED
      BY <1>2, <3>2, <3>3, <3>4
  <2>4. QED
    BY <1>2, <2>1, <2>2, <2>3
<1>15. QED
  BY <1>11, <1>13, <1>14 DEF LoginInv, LoginsAreLimited

LEMMA SucceedingIsLimited ==
  ASSUME NEW t \in Threads, LoginSucceeds(t)
  PROVE  LoginInv'
<1>1. fails' = <<>> /\ lockedFor' = 0 /\ consecutive' = 0
  BY DEF LoginSucceeds, AuthOnSuccess
<1>2. Len(fails') = 0 /\ DOMAIN fails' = {}
  BY <1>1
<1>3. FailsType'
  BY <1>1, <1>2, LimitsAreCounted DEF FailsType
<1>4. QED
  BY <1>2, <1>3 DEF LoginInv, LockInv, LoginsAreLimited

(* Time makes the failures older as fast as it ends the lock. *)
LEMMA WaitingIsLimited ==
  ASSUME LoginInv, TimePasses
  PROVE  LoginInv'
<1> DEFINE S == [age : 0 .. Lockout, apart : 0 .. Lockout]
           n == Len(fails)
<1>1. FailsType /\ LockInv /\ LoginsAreLimited
  BY DEF LoginInv
<1>2. MaxAttempts \in Nat /\ Lockout \in Nat /\ lockedFor \in 0 .. Lockout /\ n \in Nat
  BY <1>1, LimitsAreCounted DEF FailsType
<1>3. /\ fails' = [i \in DOMAIN fails |-> [fails[i] EXCEPT !.age = Min({Lockout, @ + 1})]]
      /\ lockedFor' = Max({0, lockedFor - 1})
      /\ consecutive' = consecutive /\ run' = run
  BY DEF TimePasses
<1>4. lockedFor' = IF lockedFor = 0 THEN 0 ELSE lockedFor - 1
  <2>1. Max({0, lockedFor - 1}) = IF 0 >= lockedFor - 1 THEN 0 ELSE lockedFor - 1
    BY <1>2, MaxOfTwo
  <2>2. QED
    BY <1>2, <1>3, <2>1
<1>5. DOMAIN fails' = DOMAIN fails /\ DOMAIN fails = 1 .. n
  BY <1>1, <1>3 DEF FailsType
<1>6. ASSUME NEW j \in DOMAIN fails
      PROVE  /\ fails'[j].apart = fails[j].apart
             /\ fails'[j].age = IF fails[j].age = Lockout THEN Lockout ELSE fails[j].age + 1
             /\ fails'[j] \in S
  <2>1. /\ fails[j] = [age |-> fails[j].age, apart |-> fails[j].apart]
        /\ fails[j].age \in 0 .. Lockout /\ fails[j].apart \in 0 .. Lockout
    BY <1>1, FailsAreTyped
  <2>2. fails'[j] = [fails[j] EXCEPT !.age = Min({Lockout, fails[j].age + 1})]
    BY <1>3
  <2>3. Min({Lockout, fails[j].age + 1})
            = IF Lockout <= fails[j].age + 1 THEN Lockout ELSE fails[j].age + 1
    BY <1>2, <2>1, MinOfTwo
  <2>4. Min({Lockout, fails[j].age + 1})
            = IF fails[j].age = Lockout THEN Lockout ELSE fails[j].age + 1
    BY <1>2, <2>1, <2>3
  <2>5. fails'[j] = [age |-> IF fails[j].age = Lockout THEN Lockout ELSE fails[j].age + 1,
                     apart |-> fails[j].apart]
    BY <2>1, <2>2, <2>4
  <2>6. QED
    BY <1>2, <2>1, <2>5
<1> HIDE DEF S
<1>7. fails' \in Seq(S) /\ Len(fails') = n
  <2>1. fails' \in [1 .. n -> S]
    BY <1>3, <1>5, <1>6
  <2>2. QED
    BY <1>2, <2>1
<1>8. FailsType'
  <2>1. lockedFor' \in 0 .. Lockout
    BY <1>2, <1>4
  <2>2. QED
    BY <1>1, <1>3, <1>7, <2>1 DEF FailsType, S
<1>9. ASSUME NEW j \in DOMAIN fails', MaxAttempts <= j, fails'[j].age < Lockout
      PROVE  Locks(j)'
  <2>1. j \in DOMAIN fails /\ fails[j].age \in 0 .. Lockout
    BY <1>1, <1>5, FailsAreTyped
  <2>2. fails'[j].age = fails[j].age + 1 /\ fails[j].age < Lockout
    BY <1>2, <1>6, <1>9, <2>1
  <2>3. Locks(j)
    BY <1>1, <1>9, <2>1, <2>2 DEF LockInv
  <2>4. Lockout - fails'[j].age <= lockedFor'
    <3>1. Lockout - fails[j].age <= lockedFor
      BY <2>3 DEF Locks
    <3>2. QED
      BY <1>2, <1>4, <2>1, <2>2, <3>1
  <2>5. Posted' = Posted
    BY <1>3 DEF Posted
  <2>6. QED
    BY <1>7, <2>3, <2>4, <2>5 DEF Locks
<1>10. LoginsAreLimited'
  BY <1>1, <1>5, <1>6 DEF LoginsAreLimited
<1>11. QED
  BY <1>8, <1>9, <1>10 DEF LoginInv, LockInv

LEMMA NextLoginInv ==
  ASSUME RunsInv, archive \in Nat, LoginInv, [CollectionNext]_sessionsAndLimiters
  PROVE  LoginInv'
<1>1. CASE TimePasses
  BY <1>1, WaitingIsLimited
<1>2. CASE Elsewhere /\ ~ TimePasses
  <2>1. UNCHANGED <<fails, loginLock>>
    <3>1. DropSessions \/ PasswordExpires \/ Publish => UNCHANGED <<fails, loginLock>>
      BY DEF DropSessions, PasswordExpires, Publish
    <3>2. LimiterNext => UNCHANGED loginLock
      BY DEF LimiterNext, WaitIfNeeded, Acquire, LookAgain, OnSuccess, SpeedUp, OnFailure, BackoffEnds,
             SlowDown, Tick
    <3>3. QED
      BY <1>2, <3>1, <3>2 DEF Elsewhere, sessionVars
  <2>2. Posted' = Posted
    BY <1>2, RunsStay, ElsewhereRunsStay
  <2>3. QED
    BY <2>1, <2>2, LockStays
<1>3. ASSUME NEW t \in Threads,
             \/ StartRun(t) \/ EnsureAuthenticated(t) \/ Authenticate(t) \/ PortalLogsIn(t)
             \/ DownloadExcel(t) \/ AskForPage(t)
             \/ PortalAnswers(t) \/ PortalMisbehaves(t) \/ ProcessPage(t)
             \/ RetryPage(t)
      PROVE  LoginInv'
  <2>1. UNCHANGED <<fails, loginLock>>
    <3>1. StartRun(t) \/ EnsureAuthenticated(t) \/ Authenticate(t) => UNCHANGED <<fails, loginLock>>
      BY DEF StartRun, EnsureAuthenticated, Authenticate
    <3>2. PortalLogsIn(t) => UNCHANGED <<fails, loginLock>>
      BY Zenon DEF PortalLogsIn
    <3>3. DownloadExcel(t) \/ AskForPage(t) \/ RetryPage(t) => UNCHANGED <<fails, loginLock>>
      BY DEF DownloadExcel, AskForPage, RetryPage
    <3>4. PortalAnswers(t) \/ PortalMisbehaves(t) => UNCHANGED <<fails, loginLock>>
      BY Zenon DEF PortalAnswers, PortalMisbehaves, PageAnswered
    <3>5. ProcessPage(t) => UNCHANGED <<fails, loginLock>>
      BY Zenon DEF ProcessPage
    <3>6. QED
      BY <1>3, <3>1, <3>2, <3>3, <3>4, <3>5
  <2>2. Posted' \subseteq Posted \/ lockedFor = 0
    BY <1>3, LoginsKeepRuns, AuthenticatingKeepsRuns, LoggingInKeepsRuns, AskingKeepsRuns,
       AnsweringKeepsRuns, ProcessingKeepsRuns, RetryingKeepsRuns
  <2>3. QED
    BY <2>1, <2>2, LockStays
<1>4. ASSUME NEW t \in Threads, LoginFails(t)
      PROVE  LoginInv'
  <2>1. t \in Posted
    BY <1>4 DEF LoginFails, In, Posted
  <2>2. QED
    BY <1>4, <2>1, LoginsKeepRuns, FailingIsLimited
<1>5. QED
  BY <1>1, <1>2, <1>3, <1>4, SessionSteps, SucceedingIsLimited

-----------------------------------------------------------------------------
(* What a run has read *)

(* A row is listed after the first n. *)
Ahead(x, n) == \E i \in DOMAIN published : n < i /\ published[i] = x

(* Rows that were listed when the run began have been read or lie ahead of    *)
(* it, however many are listed before them since.                             *)
OnItsWay(r) ==
    r.calm => \A x \in Usable(r.since) : x \in r.data \/ Ahead(x, (r.page - 1) * PageSize)

(* A table or a list in JSON that was answered has them, unless they lie      *)
(* ahead of it; and the empty table is answered only when no row lies ahead.  *)
Answered(r) ==
    /\ r.calm /\ r.pc = "answered"
    /\ r.answer.kind = "table" \/ (r.answer.kind = "json" /\ r.answer.rows # {})
    =>
        \A x \in Usable(r.since) :
            \/ x \in r.data
            \/ x \in r.answer.rows
            \/ r.answer.rows # {} /\ Ahead(x, r.page * PageSize)

Whole(r) == /\ r.page \in Nat \ {0} /\ r.missing = {}
            /\ OnItsWay(r)
            /\ Answered(r)

ListedInv == published \in Seq(ToSet(Rows) \cup NewRows)

WholeInv == ListedInv /\ \A u \in Threads : Whole(run[u])

(* What a step may make of a run that it does not take further. *)
SameReading(r, s) ==
    /\ s.page = r.page /\ s.missing = r.missing /\ s.data = r.data /\ s.since = r.since
    /\ s.calm => r.calm
    /\ s.pc = "answered" => r.pc = "answered" /\ s.answer = r.answer

Fresh(s) == s.page = 1 /\ s.missing = {} /\ s.since = {}

Steadily == \A x : \A n \in Nat : Ahead(x, n) => Ahead(x, n)'

LEMMA StillAhead ==
  ASSUME UNCHANGED published
  PROVE  Steadily /\ (ListedInv => ListedInv')
  BY DEF Steadily, Ahead, ListedInv

LEMMA PageArithmetic ==
  ASSUME NEW p \in Nat \ {0}
  PROVE  /\ (p - 1) * PageSize \in Nat /\ p * PageSize \in Nat
         /\ p * PageSize = (p - 1) * PageSize + PageSize
         /\ ((p + 1) - 1) * PageSize = p * PageSize
         /\ PageSize \in Nat \ {0}
<1>1. PageSize \in Nat \ {0}
  BY SessionAssumption
<1>2. \A q, s \in Nat : q * s \in Nat /\ (q + 1) * s = q * s + s
  OBVIOUS
<1>3. p - 1 \in Nat /\ (p - 1) + 1 = p /\ (p + 1) - 1 = p
  OBVIOUS
<1>4. QED
  BY <1>1, <1>2, <1>3

LEMMA FreshIsWhole ==
  ASSUME NEW s, Fresh(s)
  PROVE  s.page \in Nat \ {0} /\ s.missing = {} /\ Usable(s.since) = {}
  BY DEF Fresh, Usable

(* Nobody reads on. *)
LEMMA ReadingStays ==
  ASSUME \A u \in Threads : Whole(run[u]), Steadily,
         NEW u \in Threads, SameReading(run[u], run'[u]) \/ Fresh(run'[u])
  PROVE  Whole(run[u])'
<1>1. Whole(run[u])
  OBVIOUS
<1>2. CASE Fresh(run'[u])
  <2>1. run'[u].page \in Nat \ {0} /\ run'[u].missing = {} /\ Usable(run'[u].since) = {}
    BY <1>2, FreshIsWhole
  <2>2. QED
    BY <2>1 DEF Whole, OnItsWay, Answered
<1>3. CASE SameReading(run[u], run'[u])
  <2>5. (run[u].page - 1) * PageSize \in Nat /\ run[u].page * PageSize \in Nat
    BY <1>1, PageArithmetic DEF Whole
  <2>1. run'[u].page \in Nat \ {0} /\ run'[u].missing = {}
    BY <1>1, <1>3 DEF Whole, SameReading
  <2>2. OnItsWay(run[u])'
    BY <1>1, <1>3, <2>5 DEF Whole, SameReading, OnItsWay, Steadily
  <2>3. Answered(run[u])'
    BY <1>1, <1>3, <2>5 DEF Whole, SameReading, Answered, Steadily
  <2>4. QED
    BY <2>1, <2>2, <2>3 DEF Whole
<1>4. QED
  BY <1>2, <1>3

LEMMA FinishedIsFresh ==
  ASSUME NEW r, NEW result, NEW data,
         result \in {"collected", "empty"} /\ r.calm => Usable(r.since) \subseteq data
  PROVE  Fresh(Finished(r, result, data))
  BY DEF Fresh, Finished, Idle

(* One thread reads on, the others do not. *)
LEMMA OneReads ==
  ASSUME RunsInv, WholeInv, NEW t \in Threads, NEW s, Step(t, s), UNCHANGED published,
         SameReading(run[t], s) \/ Fresh(s) \/ Whole(run[t])'
  PROVE  WholeInv'
<1>1. run' = [u \in Threads |-> IF u = t THEN s ELSE run[u]]
  BY DEF RunsInv, RunsType, Step
<1>2. Steadily /\ ListedInv'
  BY StillAhead DEF WholeInv
<1>3. ASSUME NEW u \in Threads
      PROVE  Whole(run[u])'
  <2>1. CASE u # t
    <3>1. SameReading(run[u], run'[u])
      BY <1>1, <2>1 DEF SameReading
    <3>2. QED
      BY <1>2, <3>1, ReadingStays DEF WholeInv
  <2>2. CASE u = t
    BY <1>1, <1>2, <2>2, ReadingStays DEF WholeInv
  <2>3. QED
    BY <2>1, <2>2
<1>4. QED
  BY <1>2, <1>3 DEF WholeInv

LEMMA LoggingInReadsNothing ==
  ASSUME NEW r, IsRun(r), r.pc # "answered", NEW t, NEW success
  PROVE  LET s == LoggedIn(r, t, success)
         IN  SameReading(r, s) \/ Fresh(s)
<1>1. \/ \E pc \in {"page", "ensure", "excel"} :
             LoggedIn(r, t, success) = [r EXCEPT !.pc = pc, !.back = None]
      \/ LoggedIn(r, t, success) = Finished(r, "unauthenticated", {})
  BY DEF LoggedIn, Collecting
<1>2. \A pc \in {"page", "ensure", "excel"} : SameReading(r, [r EXCEPT !.pc = pc, !.back = None])
  BY DEF SameReading, IsRun, RunFields
<1>3. Fresh(Finished(r, "unauthenticated", {}))
  BY FinishedIsFresh
<1>4. QED
  BY <1>1, <1>2, <1>3

(* The steps of a login, of the export and of a retry. *)
LEMMA LoginsReadNothing ==
  ASSUME RunsInv, WholeInv, NEW t \in Threads,
         \/ EnsureAuthenticated(t) \/ Authenticate(t) \/ LoginSucceeds(t) \/ LoginFails(t)
         \/ DownloadExcel(t)
  PROVE  WholeInv'
<1>1. IsRun(run[t])
  BY DEF RunsInv, RunsType
<1>2. UNCHANGED published
  <2>1. EnsureAuthenticated(t) \/ LoginSucceeds(t) \/ LoginFails(t) \/ DownloadExcel(t) => UNCHANGED portal
    BY DEF EnsureAuthenticated, LoginSucceeds, LoginFails, DownloadExcel
  <2>2. Authenticate(t) => UNCHANGED published
    BY DEF Authenticate
  <2>3. QED
    BY <2>1, <2>2 DEF portal
<1>3. ASSUME EnsureAuthenticated(t)
      PROVE  \E s : Step(t, s) /\ (SameReading(run[t], s) \/ Fresh(s))
  <2>1. \/ \E pc \in {"excel", "page"} : Step(t, [run[t] EXCEPT !.pc = pc, !.back = None])
        \/ Step(t, [run[t] EXCEPT !.pc = "login", !.back = "collect"])
        \/ Step(t, Finished(run[t], "unauthenticated", {}))
    BY <1>3 DEF EnsureAuthenticated, Collecting
  <2>2. \A pc \in {"excel", "page"} : SameReading(run[t], [run[t] EXCEPT !.pc = pc, !.back = None])
    BY <1>1 DEF SameReading, IsRun, RunFields
  <2>3. SameReading(run[t], [run[t] EXCEPT !.pc = "login", !.back = "collect"])
    BY <1>1 DEF SameReading, IsRun, RunFields
  <2>4. Fresh(Finished(run[t], "unauthenticated", {}))
    BY FinishedIsFresh
  <2>5. QED
    BY <2>1, <2>2, <2>3, <2>4
<1>4. ASSUME Authenticate(t) \/ LoginSucceeds(t) \/ LoginFails(t)
      PROVE  \E s : Step(t, s) /\ (SameReading(run[t], s) \/ Fresh(s))
  <2>1. \/ \E success : Step(t, LoggedIn(run[t], t, success))
        \/ Step(t, [run[t] EXCEPT !.pc = "posted"])
    BY <1>4 DEF Authenticate, LoginSucceeds, LoginFails, Goes
  <2>2. run[t].pc # "answered"
    BY <1>4 DEF Authenticate, LoginSucceeds, LoginFails, In
  <2>3. SameReading(run[t], [run[t] EXCEPT !.pc = "posted"])
    BY <1>1 DEF SameReading, IsRun, RunFields
  <2>4. QED
    BY <1>1, <2>1, <2>2, <2>3, LoggingInReadsNothing
<1>5. ASSUME DownloadExcel(t)
      PROVE  \E s : Step(t, s) /\ (SameReading(run[t], s) \/ Fresh(s))
  <2>1. \/ Step(t, Finished(run[t], "exported", DownloadExcelData))
        \/ Step(t, [run[t] EXCEPT !.pc = "page"])
    BY <1>5 DEF DownloadExcel, Goes
  <2>2. SameReading(run[t], [run[t] EXCEPT !.pc = "page"])
    BY <1>1 DEF SameReading, IsRun, RunFields
  <2>3. Fresh(Finished(run[t], "exported", DownloadExcelData))
    BY FinishedIsFresh
  <2>4. QED
    BY <2>1, <2>2, <2>3
<1>6. PICK s : Step(t, s) /\ (SameReading(run[t], s) \/ Fresh(s))
  BY <1>3, <1>4, <1>5
<1>7. QED
  BY <1>2, <1>6, OneReads

LEMMA RetryingReadsNothing ==
  ASSUME RunsInv, WholeInv, NEW t \in Threads, RetryPage(t)
  PROVE  WholeInv'
<1> DEFINE signals == Signals(run[t])
           misled == signals > 0 /\ run[t].overwritten
           r == [run[t] EXCEPT !.signals = signals, !.overwritten = misled]
           again == [r EXCEPT !.attempt = @ + 1, !.pc = "page"]
           login == [again EXCEPT !.pc = "login", !.back = "page"]
<1>1. IsRun(run[t]) /\ UNCHANGED published
  BY DEF RunsInv, RunsType, RetryPage, portal
<1>2. \/ \E result \in {"blocked", "page_error"} : Step(t, Finished(r, result, {}))
      \/ Step(t, login)
      \/ Step(t, again)
  BY DEF RetryPage
<1> HIDE DEF signals, misled
<1>3. SameReading(run[t], again) /\ SameReading(run[t], login)
  BY <1>1 DEF SameReading, IsRun, RunFields
<1>4. \A result \in {"blocked", "page_error"} : Fresh(Finished(r, result, {}))
  BY FinishedIsFresh
<1> HIDE DEF r, again, login
<1>5. PICK s : Step(t, s) /\ (SameReading(run[t], s) \/ Fresh(s))
  BY <1>2, <1>3, <1>4
<1>6. QED
  BY <1>1, <1>5, OneReads

(* A run that starts has all its rows ahead. *)
LEMMA StartingIsWhole ==
  ASSUME RunsInv, WholeInv, NEW t \in Threads, StartRun(t)
  PROVE  WholeInv'
<1>1. PICK s \in {[[Idle EXCEPT !.since = ToSet(published)] EXCEPT !.pc = "login", !.back = "ensure"],
                  [[Idle EXCEPT !.since = ToSet(published)] EXCEPT !.pc = "ensure"]} : Step(t, s)
  BY DEF StartRun
<1>2. UNCHANGED published
  BY DEF StartRun, portal
<1>3. s.page = 1 /\ s.missing = {} /\ s.since = ToSet(published) /\ s.pc # "answered"
  BY <1>1 DEF Idle
<1>4. run'[t] = s
  BY <1>1 DEF Step, RunsInv, RunsType
<1>5. published \in Seq(ToSet(Rows) \cup NewRows)
  BY DEF WholeInv, ListedInv
<1>6. \A x \in ToSet(published) : Ahead(x, (1 - 1) * PageSize)
  <2>1. (1 - 1) * PageSize = 0
    BY PageArithmetic
  <2>2. DOMAIN published = 1 .. Len(published) /\ Len(published) \in Nat
    BY <1>5
  <2>3. QED
    BY <2>1, <2>2 DEF Ahead, ToSet
<1>7. \A x \in Usable(ToSet(published)) : Ahead(x, (1 - 1) * PageSize)'
  BY <1>2, <1>6 DEF Usable, Ahead
<1>8. OnItsWay(run[t])'
  BY <1>2, <1>3, <1>4, <1>7 DEF OnItsWay
<1>9. Whole(run[t])'
  BY <1>3, <1>4, <1>8 DEF Whole, Answered
<1>10. QED
  BY <1>1, <1>2, <1>9, OneReads

(* A row added at the head moves the others on, not back. *)
LEMMA PublishingIsSteady ==
  ASSUME ListedInv, Publish
  PROVE  Steadily /\ ListedInv' /\ UNCHANGED run
<1> DEFINE S == ToSet(Rows) \cup NewRows
<1>1. PICK n \in NewRows : published' = <<n>> \o published
  BY DEF Publish
<1>2. published \in Seq(S) /\ n \in S
  BY DEF ListedInv
<1> HIDE DEF S
<1>3. /\ <<n>> \in Seq(S) /\ published' \in Seq(S)
      /\ Len(published') = 1 + Len(published) /\ Len(published) \in Nat
      /\ DOMAIN published = 1 .. Len(published)
      /\ DOMAIN published' = 1 .. Len(published) + 1
      /\ \A i \in 1 .. Len(published) : published'[i + 1] = published[i]
  BY <1>1, <1>2
<1>4. ASSUME NEW x, NEW k \in Nat, Ahead(x, k)
      PROVE  Ahead(x, k)'
  <2>1. PICK i \in DOMAIN published : k < i /\ published[i] = x
    BY <1>4 DEF Ahead
  <2>2. i + 1 \in DOMAIN published' /\ published'[i + 1] = x
    BY <1>3, <2>1
  <2>3. k < i + 1
    BY <1>3, <2>1
  <2>4. QED
    BY <2>2, <2>3 DEF Ahead
<1>5. QED
  BY <1>3, <1>4 DEF Steadily, ListedInv, S, Publish

LEMMA PublishingIsWhole ==
  ASSUME WholeInv, Publish
  PROVE  WholeInv'
<1>1. Steadily /\ ListedInv' /\ UNCHANGED run
  BY PublishingIsSteady DEF WholeInv
<1>2. ASSUME NEW u \in Threads
      PROVE  Whole(run[u])'
  <2>1. SameReading(run[u], run'[u])
    BY <1>1 DEF SameReading
  <2>2. QED
    BY <1>1, <2>1, ReadingStays DEF WholeInv
<1>3. QED
  BY <1>1, <1>2 DEF WholeInv

LEMMA NobodyReads ==
  ASSUME WholeInv, UNCHANGED <<run, published>>
  PROVE  WholeInv'
<1>1. Steadily /\ ListedInv'
  BY StillAhead DEF WholeInv
<1>2. ASSUME NEW u \in Threads
      PROVE  Whole(run[u])'
  <2>1. SameReading(run[u], run'[u])
    BY DEF SameReading
  <2>2. QED
    BY <1>1, <2>1, ReadingStays DEF WholeInv
<1>3. QED
  BY <1>1, <1>2 DEF WholeInv

LEMMA PortalLoginIsWhole ==
  ASSUME RunsInv, WholeInv, NEW t \in Threads, PortalLogsIn(t)
  PROVE  WholeInv'
<1>1. run' = [u \in Threads |-> [run[u] EXCEPT !.rejected = {}, !.pc = IF u = t THEN "welcomed" ELSE @]]
      /\ UNCHANGED published
  BY Zenon DEF PortalLogsIn
<1>2. Steadily /\ ListedInv'
  BY <1>1, StillAhead DEF WholeInv
<1>3. ASSUME NEW u \in Threads
      PROVE  Whole(run[u])'
  <2>1. IsRun(run[u])
    BY DEF RunsInv, RunsType
  <2>2. run'[u] = [run[u] EXCEPT !.rejected = {}, !.pc = IF u = t THEN "welcomed" ELSE run[u].pc]
    BY <1>1, <2>1 DEF IsRun, RunFields
  <2>3. SameReading(run[u], run'[u])
    BY <2>1, <2>2 DEF SameReading, IsRun, RunFields
  <2>4. QED
    BY <1>2, <2>3, ReadingStays DEF WholeInv
<1>4. QED
  BY <1>2, <1>3 DEF WholeInv

(* What becomes of a run with a page: it is finished, and then returns all    *)
(* there is to return, or it reads on.                                        *)
LEMMA WithPageIsWhole ==
  ASSUME NEW r, IsRun(r), r.page \in Nat, NEW t, NEW rows,
         r.calm /\ rows = {} => Usable(r.since) \subseteq r.data
  PROVE  LET s == WithPage(r, t, rows)
         IN  \/ Fresh(s)
             \/ /\ s.page = r.page + 1 /\ s.missing = r.missing /\ s.since = r.since
                /\ s.data = r.data \cup rows /\ s.calm = r.calm /\ s.pc = "page"
<1> DEFINE q == [r EXCEPT !.signals = 0, !.attempt = 1, !.blocks = 0, !.overwritten = FALSE]
           data == q.data \cup rows
           s == [q EXCEPT !.pc = "page", !.page = @ + 1, !.data = data, !.seen = @ \cup {rows}]
<1>1. \/ rows = {} /\ \E result \in {"empty", "collected"} :
             WithPage(r, t, rows) = Finished(q, result, q.data)
      \/ \E result \in {"page_error", "truncated"} : \E d :
             WithPage(r, t, rows) = Finished(q, result, d)
      \/ WithPage(r, t, rows) = s
  BY DEF WithPage
<1>2. /\ IsRun(q) /\ q.page = r.page /\ q.missing = r.missing /\ q.since = r.since
      /\ q.data = r.data /\ q.calm = r.calm
  BY DEF IsRun, RunFields
<1>3. CASE rows = {} /\ \E result \in {"empty", "collected"} :
               WithPage(r, t, rows) = Finished(q, result, q.data)
  <2> HIDE DEF q
  <2>1. r.calm => Usable(r.since) \subseteq r.data
    BY <1>3
  <2>2. QED
    BY <1>2, <1>3, <2>1, FinishedIsFresh
<1>4. CASE \E result \in {"page_error", "truncated"} : \E d : WithPage(r, t, rows) = Finished(q, result, d)
  <2> HIDE DEF q
  <2>1. PICK result \in {"page_error", "truncated"} : \E d : WithPage(r, t, rows) = Finished(q, result, d)
    BY <1>4
  <2>2. PICK d : WithPage(r, t, rows) = Finished(q, result, d)
    BY <2>1
  <2>3. QED
    BY <2>1, <2>2, FinishedIsFresh
<1>5. CASE WithPage(r, t, rows) = s
  <2>1. s = [q EXCEPT !.pc = "page", !.page = @ + 1, !.data = data, !.seen = @ \cup {rows}]
    OBVIOUS
  <2>2. data = r.data \cup rows
    BY <1>2
  <2> HIDE DEF q, data, s
  <2>3. /\ s.page = r.page + 1 /\ s.missing = r.missing /\ s.since = r.since
        /\ s.data = data /\ s.calm = r.calm /\ s.pc = "page"
    BY <1>2, <2>1 DEF IsRun, RunFields
  <2>4. QED
    BY <1>5, <2>2, <2>3
<1>6. QED
  BY <1>1, <1>3, <1>4, <1>5

(* A page from memory is taken, and the run is no longer calm; or the page is *)
(* asked for.                                                                 *)
LEMMA AskingIsWhole ==
  ASSUME RunsInv, WholeInv, NEW t \in Threads, AskForPage(t)
  PROVE  WholeInv'
<1> DEFINE r == [run[t] EXCEPT !.calm = FALSE]
           asked == [run[t] EXCEPT !.pc = "waiting", !.sent = jar]
<1>1. IsRun(run[t]) /\ UNCHANGED published /\ Whole(run[t])
  BY DEF RunsInv, RunsType, AskForPage, portal, WholeInv
<1>2. \/ \E rows : Step(t, WithPage(r, t, rows))
      \/ Step(t, asked)
  BY DEF AskForPage
<1>3. /\ IsRun(r) /\ r.calm = FALSE /\ r.page = run[t].page /\ r.missing = run[t].missing
  BY <1>1 DEF IsRun, RunFields
<1>4. CASE Step(t, asked)
  <2>1. SameReading(run[t], asked)
    BY <1>1 DEF SameReading, IsRun, RunFields
  <2>2. QED
    BY <1>1, <1>4, <2>1, OneReads
<1>5. CASE \E rows : Step(t, WithPage(r, t, rows))
  <2> HIDE DEF r
  <2>1. PICK rows : Step(t, WithPage(r, t, rows))
    BY <1>5
  <2> DEFINE s == WithPage(r, t, rows)
  <2>2. run'[t] = s
    BY <2>1 DEF Step, RunsInv, RunsType
  <2>3. run[t].page \in Nat \ {0} /\ run[t].missing = {}
    BY <1>1 DEF Whole
  <2>4. Fresh(s) \/ (s.page = r.page + 1 /\ s.missing = r.missing /\ s.calm = r.calm)
    BY <1>3, <2>3, WithPageIsWhole
  <2> HIDE DEF s
  <2>5. Fresh(s) \/ Whole(run[t])'
    BY <1>3, <2>2, <2>3, <2>4 DEF Whole, OnItsWay, Answered
  <2>6. Step(t, s)
    BY <2>1 DEF s
  <2>7. QED
    BY <1>1, <2>5, <2>6, OneReads
<1>6. QED
  BY <1>2, <1>4, <1>5

(* The page that the portal answers has the rows from its first to its last,  *)
(* and has one if any lies behind it.                                         *)
LEMMA PagesHaveTheirRows ==
  ASSUME ListedInv, NEW p \in Nat \ {0}, NEW x, Ahead(x, (p - 1) * PageSize)
  PROVE  \/ x \in PortalPage(p)
         \/ PortalPage(p) # {} /\ Ahead(x, p * PageSize)
<1> DEFINE a == (p - 1) * PageSize
           b == p * PageSize
<1>1. a \in Nat /\ b = a + PageSize /\ PageSize \in Nat \ {0}
  BY PageArithmetic
<1>2. PortalPage(p) = {published[i] : i \in {i \in DOMAIN published : a < i /\ i <= b}}
  BY DEF PortalPage
<1>3. PICK i \in DOMAIN published : a < i /\ published[i] = x
  BY DEF Ahead
<1> HIDE DEF a, b
<1>4. DOMAIN published = 1 .. Len(published) /\ Len(published) \in Nat
  BY DEF ListedInv
<1>5. CASE i <= b
  BY <1>2, <1>3, <1>5
<1>6. CASE ~ (i <= b)
  <2>1. b < i /\ a + 1 <= b /\ a + 1 \in DOMAIN published
    BY <1>1, <1>3, <1>4, <1>6
  <2>2. published[a + 1] \in PortalPage(p)
    BY <1>1, <1>2, <2>1
  <2>3. Ahead(x, b)
    BY <1>3, <2>1 DEF Ahead
  <2>4. QED
    BY <2>2, <2>3 DEF b
<1>7. QED
  BY <1>5, <1>6

LEMMA AnsweringIsWhole ==
  ASSUME RunsInv, WholeInv, NEW t \in Threads, PortalAnswers(t) \/ PortalMisbehaves(t)
  PROVE  WholeInv'
<1>1. IsRun(run[t]) /\ Whole(run[t]) /\ ListedInv
  BY DEF RunsInv, RunsType, WholeInv
<1>2. PICK a : /\ PageAnswered(t, a)
               /\ a.kind = "table" => a.rows = PortalPage(run[t].page)
               /\ a.kind = "json" => a.rows \in {{}, PortalPage(run[t].page)}
  <2>1. CASE PortalAnswers(t)
    <3> DEFINE a == IF run[t].sent \in live THEN Listed(PortalPage(run[t].page)) ELSE Without("redirect")
    <3>1. PageAnswered(t, a)
      BY <2>1 DEF PortalAnswers
    <3>2. a.kind # "json" /\ (a.kind = "table" => a.rows = PortalPage(run[t].page))
      BY DEF Listed, Without
    <3>3. QED
      BY <3>1, <3>2
  <2>2. CASE PortalMisbehaves(t)
    <3>1. PICK fault \in {"forbidden", "blank", "noTable", "json", "error", "curl", "tooLarge"} :
            \E rows \in IF fault = "json" THEN {{}, PortalPage(run[t].page)} ELSE {{}} :
                PageAnswered(t, [kind |-> fault, rows |-> rows])
      BY <2>2 DEF PortalMisbehaves
    <3>2. PICK rows \in IF fault = "json" THEN {{}, PortalPage(run[t].page)} ELSE {{}} :
            PageAnswered(t, [kind |-> fault, rows |-> rows])
      BY <3>1
    <3> DEFINE b == [kind |-> fault, rows |-> rows]
    <3>3. b.kind # "table" /\ (b.kind = "json" => b.rows \in {{}, PortalPage(run[t].page)})
      BY <3>2
    <3>4. QED
      BY <3>2, <3>3
  <2>3. QED
    BY <2>1, <2>2
<1>3. PICK room : Step(t, [run[t] EXCEPT !.pc = "answered", !.answer = a, !.room = room])
  BY <1>2 DEF PageAnswered
<1> DEFINE s == [run[t] EXCEPT !.pc = "answered", !.answer = a, !.room = room]
<1>4. /\ s.page = run[t].page /\ s.missing = run[t].missing /\ s.data = run[t].data
      /\ s.since = run[t].since /\ s.calm = run[t].calm /\ s.answer = a
  BY <1>1 DEF IsRun, RunFields
<1>5. Step(t, s) /\ UNCHANGED published
  BY <1>2, <1>3 DEF PageAnswered, portal
<1> HIDE DEF s
<1>6. run'[t] = s
  BY <1>5 DEF Step, RunsInv, RunsType
<1>7. run[t].page \in Nat \ {0} /\ run[t].missing = {} /\ OnItsWay(run[t])
  BY <1>1 DEF Whole
<1>8. OnItsWay(run[t])'
  BY <1>4, <1>5, <1>6, <1>7 DEF OnItsWay, Ahead
<1>9. Answered(run[t])'
  <2>1. PICK p : p = run[t].page
    OBVIOUS
  <2>2. run'[t].page = p
    BY <1>4, <1>6, <2>1
  <2>3. SUFFICES ASSUME s.calm, a.kind = "table" \/ (a.kind = "json" /\ a.rows # {}),
                        NEW x \in Usable(s.since)
                 PROVE  \/ x \in s.data
                        \/ x \in a.rows
                        \/ a.rows # {} /\ Ahead(x, p * PageSize)'
    BY <1>4, <1>6, <2>2 DEF Answered
  <2>4. x \in run[t].data \/ Ahead(x, (run[t].page - 1) * PageSize)
    BY <1>4, <1>7, <2>3 DEF OnItsWay
  <2>5. \/ x \in run[t].data
        \/ x \in a.rows
        \/ a.rows # {} /\ Ahead(x, run[t].page * PageSize)
    <3>1. a.rows = PortalPage(run[t].page)
      BY <1>2, <2>3
    <3>2. QED
      BY <1>1, <1>7, <2>4, <3>1, PagesHaveTheirRows
  <2>6. QED
    BY <1>4, <1>5, <2>5, <2>1 DEF Ahead
<1>10. Whole(run[t])'
  BY <1>4, <1>6, <1>7, <1>8, <1>9 DEF Whole
<1>11. QED
  BY <1>5, <1>10, OneReads

LEMMA ProcessingIsWhole ==
  ASSUME RunsInv, WholeInv, NEW t \in Threads, ProcessPage(t)
  PROVE  WholeInv'
<1> DEFINE a == run[t].answer
           kind == FailureOf(a)
           q == [run[t] EXCEPT !.answer = None, !.room = FALSE, !.sent = None]
           own == IF kind = "block_suspect" THEN q.blocks + 1 ELSE 0
           rejected == IF kind = "session_expired" THEN q.rejected \cup ({run[t].sent} \ {None})
                       ELSE q.rejected
           failed == [q EXCEPT !.pc = "failed", !.blocks = own, !.rejected = rejected]
           parsed == ParseResponseData(a)
           read == [q EXCEPT !.calm = @ /\ (parsed # {} \/ a.kind # "json")]
           page == WithPage(read, t, parsed)
           s == IF kind = None THEN page ELSE failed
           other(u) == IF run[u].pc = "failed" /\ kind # failureKind
                       THEN [run[u] EXCEPT !.overwritten = TRUE] ELSE run[u]
<1>1. /\ RunsType /\ IsRun(run[t]) /\ run[t].pc = "answered" /\ Whole(run[t]) /\ UNCHANGED published
  BY Zenon DEF RunsInv, RunsType, ProcessPage, In, WholeInv
<1>2. run' = [u \in Threads |-> IF u = t THEN s ELSE other(u)]
  <2>1. CASE kind = None
    <3>1. run' = [Overwrites(t, kind) EXCEPT ![t] = page]
      BY <2>1 DEF ProcessPage
    <3>2. QED
      BY <2>1, <3>1 DEF Overwrites
  <2>2. CASE kind # None
    <3>1. run' = [Overwrites(t, kind) EXCEPT
                     ![t] = [q EXCEPT !.pc = "failed", !.blocks = own,
                                 !.rejected = IF kind = "session_expired"
                                              THEN @ \cup ({run[t].sent} \ {None}) ELSE @]]
      BY <2>2 DEF ProcessPage
    <3>2. run' = [Overwrites(t, kind) EXCEPT ![t] = failed]
      BY <3>1, <1>1 DEF IsRun, RunFields
    <3>3. QED
      BY <2>2, <3>2 DEF Overwrites
  <2>3. QED
    BY <2>1, <2>2
<1>3. /\ IsRun(q) /\ q.page = run[t].page /\ q.missing = run[t].missing /\ q.since = run[t].since
      /\ q.data = run[t].data /\ q.calm = run[t].calm
  BY <1>1 DEF IsRun, RunFields
<1> HIDE DEF q
<1>4. SameReading(run[t], failed)
  <2> HIDE DEF own, rejected
  <2>1. QED
    BY <1>3 DEF SameReading, IsRun, RunFields
<1>5. ASSUME kind = None
      PROVE  /\ a.kind \in {"table", "json"} /\ parsed = Usable(a.rows)
             /\ a.kind = "table" => a.rows = {} \/ Usable(a.rows) # {}
  <2>1. a.kind \notin {"redirect", "forbidden", "blank", "error", "curl", "tooLarge"}
        /\ ParseResponseData(a) # None
    BY <1>5, KindAssumption DEF FailureOf
  <2>2. CASE a.kind = "json"
    BY <2>2 DEF ParseResponseData
  <2>3. CASE a.kind # "json"
    BY <2>1, <2>3 DEF ParseResponseData, ParseHtml
  <2>4. QED
    BY <2>2, <2>3
<1> HIDE DEF failed, kind, a, other, parsed
<1>read. /\ IsRun(read) /\ read.page = q.page /\ read.missing = q.missing /\ read.since = q.since
         /\ read.data = q.data /\ read.calm = (q.calm /\ (parsed # {} \/ a.kind # "json"))
  BY <1>3 DEF IsRun, RunFields
<1> HIDE DEF read
<1>6. run[t].page \in Nat \ {0} /\ run[t].missing = {} /\ OnItsWay(run[t]) /\ Answered(run[t])
  BY <1>1 DEF Whole
<1>7. Steadily /\ ListedInv'
  BY <1>1, StillAhead DEF WholeInv
<1>8. SameReading(run[t], run'[t]) \/ Fresh(run'[t]) \/ Whole(run[t])'
  <2>1. CASE kind # None
    BY <1>2, <1>4, <2>1
  <2>2. CASE kind = None
    <3> DEFINE rows == Usable(a.rows)
    <3>1. run'[t] = WithPage(read, t, rows) /\ parsed = rows
      BY <1>2, <1>5, <2>2
    <3>2. ASSUME read.calm, NEW x \in Usable(run[t].since)
          PROVE  \/ x \in run[t].data
                 \/ x \in a.rows
                 \/ a.rows # {} /\ Ahead(x, run[t].page * PageSize)
      <4>1. run[t].calm /\ (a.kind = "table" \/ (a.kind = "json" /\ a.rows # {}))
        BY <1>3, <1>5, <1>read, <2>2, <3>1, <3>2 DEF Usable
      <4>2. QED
        BY <1>1, <1>6, <3>2, <4>1 DEF Answered, a
    <3>3. read.calm /\ rows = {} => Usable(read.since) \subseteq read.data
      <4>1. SUFFICES ASSUME read.calm, rows = {}, NEW x \in Usable(run[t].since)
                     PROVE  x \in run[t].data
        BY <1>3, <1>read
      <4>2. a.kind = "table" /\ a.rows = {}
        BY <1>5, <1>read, <2>2, <3>1, <4>1
      <4>3. QED
        BY <3>2, <4>1, <4>2
    <3>4. \A x \in Usable(run[t].since) :
             read.calm => x \in run[t].data \cup rows \/ Ahead(x, run[t].page * PageSize)
      BY <3>2 DEF Usable
    <3> HIDE DEF rows
    <3>5. \/ Fresh(run'[t])
          \/ /\ run'[t].page = q.page + 1 /\ run'[t].missing = q.missing /\ run'[t].since = q.since
             /\ run'[t].data = q.data \cup rows /\ run'[t].calm = read.calm /\ run'[t].pc = "page"
      BY <1>3, <1>6, <1>read, <3>1, <3>3, WithPageIsWhole
    <3>6. ASSUME ~ Fresh(run'[t])
          PROVE  Whole(run[t])'
      <4>1. PICK p : p = run[t].page
        OBVIOUS
      <4>2. /\ run'[t].page = p + 1 /\ run'[t].missing = {} /\ run'[t].since = run[t].since
            /\ run'[t].data = run[t].data \cup rows /\ run'[t].calm = read.calm
            /\ run'[t].pc = "page"
        BY <1>3, <1>6, <3>5, <3>6, <4>1
      <4>3. ((p + 1) - 1) * PageSize = p * PageSize /\ p * PageSize \in Nat /\ p + 1 \in Nat \ {0}
        BY <1>6, <4>1, PageArithmetic
      <4>4. \A x \in Usable(run[t].since) :
               read.calm => x \in run[t].data \cup rows \/ Ahead(x, p * PageSize)'
        BY <1>7, <3>4, <4>1, <4>3 DEF Steadily
      <4>5. OnItsWay(run[t])'
        BY <4>2, <4>3, <4>4 DEF OnItsWay
      <4>6. QED
        BY <4>2, <4>3, <4>5 DEF Whole, Answered
    <3>7. QED
      BY <3>6
  <2>3. QED
    BY <2>1, <2>2
<1>9. ASSUME NEW u \in Threads, u # t
      PROVE  SameReading(run[u], run'[u])
  <2>1. run'[u] = other(u) /\ IsRun(run[u])
    BY <1>2, <1>9 DEF RunsInv, RunsType
  <2>2. run'[u] = run[u] \/ (run[u].pc = "failed" /\ run'[u] = [run[u] EXCEPT !.overwritten = TRUE])
    BY <2>1 DEF other
  <2>3. QED
    BY <2>1, <2>2 DEF SameReading, IsRun, RunFields
<1>10. ASSUME NEW u \in Threads
       PROVE  Whole(run[u])'
  BY <1>7, <1>8, <1>9, ReadingStays DEF WholeInv
<1>11. QED
  BY <1>7, <1>10 DEF WholeInv

LEMMA InitWholeInv == CollectionInit => WholeInv
<1> SUFFICES ASSUME CollectionInit
             PROVE  WholeInv
  OBVIOUS
<1>1. run = [t \in Threads |-> Idle] /\ published = Rows
  BY DEF CollectionInit, InitSession
<1>2. Idle.page = 1 /\ Idle.missing = {} /\ Idle.since = {} /\ Idle.pc = "idle"
  BY DEF Idle
<1>3. Rows \in Seq(ToSet(Rows))
  BY SessionAssumption
<1>4. ListedInv
  BY <1>1, <1>3 DEF ListedInv
<1>5. QED
  BY <1>1, <1>2, <1>4 DEF WholeInv, Whole, OnItsWay, Answered, Usable

LEMMA NextWholeInv ==
  ASSUME RunsInv, WholeInv, [CollectionNext]_sessionsAndLimiters
  PROVE  WholeInv'
<1>1. CASE Elsewhere /\ ~ Publish
  <2>1. UNCHANGED <<run, published>>
    BY <1>1 DEF Elsewhere, DropSessions, PasswordExpires, TimePasses, sessionVars, portal
  <2>2. QED
    BY <2>1, NobodyReads
<1>2. QED
  BY <1>1, SessionSteps, PublishingIsWhole, StartingIsWhole, LoginsReadNothing, PortalLoginIsWhole,
     AskingIsWhole, AnsweringIsWhole, ProcessingIsWhole, RetryingReadsNothing

-----------------------------------------------------------------------------
(* Theorems *)

SessionInv == RunsInv /\ ArchiveInv /\ LoginInv /\ WholeInv

LEMMA AlwaysSessionInv == CollectionSpec => []SessionInv
<1>1. CollectionInit => SessionInv
  BY InitRunsInv, InitArchiveInv, InitLoginInv, InitWholeInv DEF SessionInv
<1>2. SessionInv /\ [CollectionNext]_<<now, bucketVars, loginLock, sessionVars>> => SessionInv'
  BY NextRunsInv, NextArchiveInv, NextLoginInv, NextWholeInv DEF SessionInv, ArchiveInv, sessionsAndLimiters
<1>3. QED
  BY <1>1, <1>2, PTL DEF CollectionSpec

LEMMA AlwaysLimiterInv == CollectionSpec => []LimiterInv
<1>1. CollectionInit => LimiterInv
  BY InitLimiterInv
<1>2. LimiterInv /\ [CollectionNext]_<<now, bucketVars, loginLock, sessionVars>> => LimiterInv'
  BY NextLimiterInv
<1>3. QED
  BY <1>1, <1>2, PTL DEF CollectionSpec

(* A thread that serves a backoff holds the lock of the bucket, so the number *)
(* of requests stays what it was when it began.                               *)
LEMMA HoldersKeepBackoffs == LimiterInv => BackoffsAreKept
  BY DEF LimiterInv, HolderInv, BackoffsAreKept, At

(* The portal is spared, for every number of threads and every setting of the *)
(* limiters: the requests let through in any stretch of time are no more than *)
(* a burst and what the highest rate adds, none is let through in a backoff,  *)
(* and once the login has locked no more logins fail in a lockout than there  *)
(* are threads (rate_limiter.py: acquire, on_failure, AuthRateLimiter).       *)
THEOREM SparesThePortal == CollectionSpec => []PortalIsSpared
<1>1. LimiterInv /\ SessionInv => PortalIsSpared
  BY HoldersKeepBackoffs DEF LimiterInv, SessionInv, LoginInv, PortalIsSpared
<1>2. QED
  BY <1>1, AlwaysLimiterInv, AlwaysSessionInv, PTL

(* No run sends a session that it was told is rejected: the jar is emptied    *)
(* with the answer, and what is put in it later is new                        *)
(* (regtech/authentication.py and data_collection.py).                        *)
THEOREM DropsRejectedSessions == CollectionSpec => []RejectedSessionsAreDropped
<1>1. SessionInv => RejectedSessionsAreDropped
  BY DEF SessionInv, RunsInv, Rejects, RejectedSessionsAreDropped, In
<1>2. QED
  BY <1>1, AlwaysSessionInv, PTL

(* What a run tells the scheduler is so: a run that read every page afresh    *)
(* until the portal had no more returns each usable row that was listed from  *)
(* its start on, whatever was added, dropped or misanswered in between; and a *)
(* run given up as blocked has itself met that many block signals in a row,   *)
(* unless another wrote the shared kind of failure while it waited.           *)
THEOREM TellsTheTruth == CollectionSpec => []VerdictsAreRight
<1>1. SessionInv => VerdictsAreRight
  BY DEF SessionInv, RunsInv, Verdict, WholeInv, Whole, VerdictsAreRight, RunsAreWhole,
         BlockedMeansBlocked
<1>2. QED
  BY <1>1, AlwaysSessionInv, PTL

(* The archive exceeds its cap by at most one answer for each other thread:   *)
(* every run that found room has yet to write one (archive_manager.py).       *)
THEOREM ArchiveIsCapped == CollectionSpec => []ArchiveStaysNearItsCap
<1>1. ArchiveInv => ArchiveStaysNearItsCap
  <2>1. SUFFICES ASSUME ArchiveInv
                 PROVE  archive <= ArchiveCap + Cardinality(Threads) - 1
    BY DEF ArchiveStaysNearItsCap
  <2>2. /\ archive \in Nat /\ Cardinality(Roomy) \in Nat
        /\ ArchiveCap + Cardinality(Threads) - 1 \in Int
        /\ archive + Cardinality(Roomy) <= ArchiveCap + Cardinality(Threads) - 1
    <3>1. archive \in Nat /\ archive + Cardinality(Roomy) <= ArchiveCap + Cardinality(Threads) - 1
      BY <2>1 DEF ArchiveInv
    <3>2. Roomy \subseteq Threads
      BY DEF Roomy
    <3>3. ArchiveCap \in Nat
      BY SessionAssumption
    <3>4. QED
      BY <3>1, <3>2, <3>3, ThreadsAreCounted
  <2>3. QED
    BY <2>2, LessWithout
<1>2. SessionInv => ArchiveInv
  BY DEF SessionInv
<1>3. QED
  BY <1>1, <1>2, AlwaysSessionInv, PTL

=============================================================================
