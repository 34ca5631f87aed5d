----------------------------- MODULE RateLimiters -----------------------------
(***************************************************************************)
(* The two limiters of the collector (collector/core/rate_limiter.py): an  *)
(* adaptive token bucket in front of every request for data, and a lock on *)
(* logins.  Both are shared by the threads that collect.                   *)
(*                                                                         *)
(* A thread that has to wait, for tokens or for a backoff after a failure, *)
(* sleeps while it holds the bucket's lock, so that all threads wait.      *)
(* Tokens and rates are integers (OneToken units make a token), times are  *)
(* ticks; a sleep ends at the first tick that is late enough.              *)
(***************************************************************************)
EXTENDS Integers, Sequences, FiniteSets, FiniteSetsExt, SequencesExt

CONSTANTS
    None,
    Threads,
    OneToken, BurstSize,                  \* burst_size, in tokens
    MinRate, InitialRate, MaxRate,        \* units per tick
    AdjustAfter,                          \* rate_adjustment_threshold
    MaxBackoff,                           \* max_backoff
    MaxAttempts,                          \* max_attempts of the login lock
    Lockout,                              \* lockout_duration
    MaxTime,                              \* bound: ticks of a behaviour
    MaxGrants                             \* bound: requests of a behaviour

ASSUME ThreadAssumption == IsFiniteSet(Threads) /\ Threads # {} /\ None \notin Threads
ASSUME LimiterAssumption ==
    /\ {OneToken, BurstSize, MinRate, InitialRate, MaxRate, AdjustAfter, MaxAttempts, Lockout}
           \subseteq Nat \ {0}
    /\ {MaxBackoff, MaxTime, MaxGrants} \subseteq Nat
    /\ MinRate <= InitialRate /\ InitialRate <= MaxRate

VARIABLES
    now,
    tokens, lastRefill, rate, failureCount, successStreak,
    holder,        \* the thread that holds the bucket's lock, or None
    limit,         \* thread -> where it is in a call of the limiter
    wakeAt,        \* thread -> when its sleep ends
    grants,        \* history: the times of the requests let through
    before,        \* history: thread -> how many there were when it began to wait
    consecutive, lockedFor                \* the login lock, and the ticks left of it

bucketVars == <<tokens, lastRefill, rate, failureCount, successStreak, holder, limit, wakeAt,
                grants, before>>
loginLock  == <<consecutive, lockedFor>>

Times == 0 .. MaxTime
TicksFor(units) == (units + rate - 1) \div rate

InitLimiters ==
    /\ now = 0
    /\ tokens = BurstSize * OneToken /\ lastRefill = 0 /\ rate = InitialRate
    /\ failureCount = 0 /\ successStreak = 0
    /\ holder = None
    /\ limit = [t \in Threads |-> "idle"]
    /\ wakeAt = [t \in Threads |-> 0]
    /\ grants = <<>>
    /\ before = [t \in Threads |-> 0]
    /\ consecutive = 0 /\ lockedFor = 0

At(t, place) == limit[t] = place
Go(t, place) == limit' = [limit EXCEPT ![t] = place]
Adjusted == <<rate, failureCount, successStreak>>

-----------------------------------------------------------------------------
(* acquire *)

WaitIfNeeded(t) ==
    /\ At(t, "idle")
    /\ Len(grants) < MaxGrants
    /\ holder = None
    /\ holder' = t
    /\ Go(t, "refill")
    /\ UNCHANGED <<now, tokens, lastRefill, Adjusted, wakeAt, grants, before, loginLock>>

RefillUncapped == tokens + (now - lastRefill) * rate
RefillTokens == Min({BurstSize * OneToken, tokens + (now - lastRefill) * rate})

(* A token is taken, or the thread sleeps for what is missing and looks again. *)
Acquire(t) ==
    /\ At(t, "refill")
    /\ lastRefill' = now
    /\ IF RefillTokens >= OneToken
       THEN /\ tokens' = RefillTokens - OneToken
            /\ grants' = Append(grants, now)
            /\ holder' = None
            /\ Go(t, "granted")
            /\ UNCHANGED wakeAt
       ELSE /\ tokens' = RefillTokens
            /\ wakeAt' = [wakeAt EXCEPT ![t] = now + TicksFor(OneToken - RefillTokens)]
            /\ Go(t, "sleep")
            /\ UNCHANGED <<grants, holder>>
    /\ UNCHANGED <<now, Adjusted, before, loginLock>>

LookAgain(t) ==
    /\ At(t, "sleep")
    /\ wakeAt[t] <= now
    /\ wakeAt' = [wakeAt EXCEPT ![t] = 0]
    /\ Go(t, "refill")
    /\ UNCHANGED <<now, tokens, lastRefill, Adjusted, holder, grants, before, loginLock>>

-----------------------------------------------------------------------------
(* on_success, on_failure: the base class, then the adaptive part, each under *)
(* the lock.                                                                  *)

OnSuccess(t) ==
    /\ At(t, "granted")
    /\ holder = None
    /\ failureCount' = 0
    /\ Go(t, "faster")
    /\ UNCHANGED <<now, tokens, lastRefill, rate, successStreak, holder, wakeAt, grants, before,
                   loginLock>>

SpeedUp(t) ==
    /\ At(t, "faster")
    /\ holder = None
    /\ LET enough == successStreak + 1 >= AdjustAfter /\ rate < MaxRate
       IN  /\ rate' = IF enough THEN Min({MaxRate, (rate * 6) \div 5}) ELSE rate
           /\ successStreak' = IF enough THEN 0 ELSE Min({AdjustAfter, successStreak + 1})
    /\ Go(t, "idle")
    /\ UNCHANGED <<now, tokens, lastRefill, failureCount, holder, wakeAt, grants, before, loginLock>>

(* current_backoff: half a tick for the first failure, doubled by each next   *)
(* one and by an answer that names an overload.                               *)
Backoff(failures, overload) ==
    LET half == 2 ^ failures
    IN  Min({MaxBackoff, IF overload THEN half ELSE half \div 2})

OnFailureWithoutLock(t, overload) ==
    /\ At(t, "granted")
    /\ holder = None
    /\ failureCount' = failureCount + 1
    /\ wakeAt' = [wakeAt EXCEPT ![t] = now + Backoff(failureCount + 1, overload)]
    /\ before' = [before EXCEPT ![t] = Len(grants)]
    /\ Go(t, "backoff")
    /\ UNCHANGED <<now, tokens, lastRefill, rate, successStreak, holder, grants, loginLock>>

OnFailure(t, overload) ==
    /\ At(t, "granted")
    /\ holder = None
    /\ holder' = t
    /\ failureCount' = failureCount + 1
    /\ wakeAt' = [wakeAt EXCEPT ![t] = now + Backoff(failureCount + 1, overload)]
    /\ before' = [before EXCEPT ![t] = Len(grants)]
    /\ Go(t, "backoff")
    /\ UNCHANGED <<now, tokens, lastRefill, rate, successStreak, grants, loginLock>>

BackoffEnds(t) ==
    /\ At(t, "backoff")
    /\ wakeAt[t] <= now
    /\ holder' = None
    /\ wakeAt' = [wakeAt EXCEPT ![t] = 0]
    /\ before' = [before EXCEPT ![t] = 0]
    /\ Go(t, "slower")
    /\ UNCHANGED <<now, tokens, lastRefill, Adjusted, grants, loginLock>>

SlowDown(t) ==
    /\ At(t, "slower")
    /\ holder = None
    /\ successStreak' = 0
    /\ rate' = Max({MinRate, rate \div 2})
    /\ Go(t, "idle")
    /\ UNCHANGED <<now, tokens, lastRefill, failureCount, holder, wakeAt, grants, before, loginLock>>

-----------------------------------------------------------------------------
(* AuthRateLimiter.  Only a success starts the count again: after a lock has  *)
(* run out, the next failure locks at once.                                   *)

AuthWaitIfNeeded == lockedFor = 0

AuthOnSuccess ==
    /\ consecutive' = 0
    /\ lockedFor' = 0

AuthOnFailureOnce ==
    /\ consecutive' = Min({MaxAttempts, consecutive + 1})
    /\ lockedFor' = IF consecutive + 1 = MaxAttempts THEN Lockout ELSE lockedFor

AuthOnFailure ==
    /\ consecutive' = Min({MaxAttempts, consecutive + 1})
    /\ lockedFor' = IF consecutive + 1 >= MaxAttempts THEN Lockout ELSE lockedFor

-----------------------------------------------------------------------------
Tick ==
    /\ now < MaxTime
    /\ now' = now + 1
    /\ UNCHANGED <<bucketVars, loginLock>>

LimiterNext ==
    \/ \E t \in Threads :
        \/ WaitIfNeeded(t) \/ Acquire(t) \/ LookAgain(t)
        \/ OnSuccess(t) \/ SpeedUp(t)
        \/ \E overload \in BOOLEAN : OnFailure(t, overload)
        \/ BackoffEnds(t) \/ SlowDown(t)
    \/ Tick

LimiterSpec == InitLimiters /\ [][LimiterNext]_<<now, bucketVars, loginLock>>

-----------------------------------------------------------------------------
(* Properties *)

(* Whatever the threads do, and however the rate changes between a refill and *)
(* the next, the requests let through in a stretch of time are no more than a *)
(* burst and what the highest rate adds in that time.                         *)
RequestsStayUnderTheRate ==
    \A i, j \in DOMAIN grants :
        i <= j => (j - i + 1) * OneToken <= BurstSize * OneToken + MaxRate * (grants[j] - grants[i])

(* While one thread serves the backoff of a failure, no thread is let through: *)
(* the portal is left alone.                                                   *)
BackoffsAreKept ==
    \A t \in Threads : At(t, "backoff") => Len(grants) = before[t]
=============================================================================
