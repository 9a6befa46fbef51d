---------------------------- MODULE LoginLimiter ----------------------------
(***************************************************************************)
(* The login throttle: security/ratelimit.py and its use by the login      *)
(* handler (api/auth.py), which awaits the database between the check and  *)
(* the verdict, so that several attempts are in flight at a time.          *)
(* Time is counted in ticks, Second of them to a second.                   *)
(***************************************************************************)
EXTENDS Integers, Sequences, FiniteSets, FiniteSetsExt

CONSTANTS
    Ip, User,      \* keys "ip:..." and "user:..."
    Login,         \* concurrent login requests
    MaxAttempts, Window, Lockout,
    Second,
    MaxNow,        \* bound: ticks
    Absent

Key == Ip \cup User

ASSUME LimiterIsClamped ==
    /\ MaxAttempts \in Nat \ {0} /\ Window \in Nat \ {0} /\ Lockout \in Nat \ {0}
    /\ Second \in Nat \ {0} /\ MaxNow \in Nat /\ IsFiniteSet(Login)
    /\ Ip \cap User = {} /\ Absent \notin Key
    /\ Absent \notin [failures : Seq(Nat), until : Nat] /\ Absent \notin [ip : Ip, user : User]

VARIABLES
    now,
    buckets,     \* self._buckets: Absent, or failures and locked_until
    lastPrune,   \* self._last_prune
    pending,     \* the keys of each admitted login, Absent when it is over
    guesses      \* history: the ticks of the failed attempts of each key

limiterVars == <<now, buckets, lastPrune, pending, guesses>>

Empty == [failures |-> <<>>, until |-> 0]

LimiterInit ==
    /\ now = 0
    /\ buckets = [k \in Key |-> Absent]
    /\ lastPrune = 0
    /\ pending = [r \in Login |-> Absent]
    /\ guesses = [k \in Key |-> <<>>]

-----------------------------------------------------------------------------
(* _bucket: failures leave from the left up to the first within the window *)
Within(f) == {i \in DOMAIN f : f[i] > now - Window}
Kept(f) == IF Within(f) = {} THEN <<>> ELSE SubSeq(f, Min(Within(f)), Len(f))
Expire(b) == [b EXCEPT !.failures = Kept(@)]

Bucket(bs, k) == IF bs[k] = Absent THEN Empty ELSE Expire(bs[k])

(* record_failure, for one key                                             *)
Fail(b) ==
    LET f == Append(b.failures, now)
    IN  IF Len(f) >= MaxAttempts /\ b.until <= now
        THEN [failures |-> <<>>, until |-> now + Lockout]
        ELSE [b EXCEPT !.failures = f]

(* Mutant: buckets are dropped when their failures have left the window    *)
Idle_IgnoresLock(b) == b.failures = <<>>

Idle(b) == b.failures = <<>> /\ b.until <= now

Pruned(bs) ==
    [k \in Key |-> IF bs[k] = Absent \/ Idle(Bucket(bs, k)) THEN Absent ELSE Bucket(bs, k)]

(* Mutant: the remaining seconds are truncated                             *)
Seconds_Truncated(wait) == IF wait > 0 THEN wait \div Second ELSE 0

(* int(wait) + 1, and 0 for "allowed now"                                  *)
Seconds(wait) == IF wait > 0 THEN wait \div Second + 1 ELSE 0

Wait(keys) ==
    LET waits == {buckets[k].until - now : k \in {j \in keys : buckets[j] # Absent}} \cup {0}
    IN  CHOOSE w \in waits : \A v \in waits : v <= w

RetryAfter(keys) == Seconds(Wait(keys))

-----------------------------------------------------------------------------
(* login, up to the query of the user row                                  *)
Admit(r, i, u) ==
    /\ pending[r] = Absent
    /\ RetryAfter({i, u}) = 0
    /\ pending' = [pending EXCEPT ![r] = [ip |-> i, user |-> u]]
    /\ UNCHANGED <<now, buckets, lastPrune, guesses>>

(* The password did not match: record_failure(ip, user)                    *)
Failed_NeverPrunes(r) ==
    /\ pending[r] # Absent
    /\ LET keys == {pending[r].ip, pending[r].user}
       IN  /\ buckets' = [k \in Key |->
                 IF k \in keys THEN Fail(Bucket(buckets, k)) ELSE buckets[k]]
           /\ guesses' = [k \in Key |->
                 IF k \in keys THEN Append(guesses[k], now) ELSE guesses[k]]
    /\ pending' = [pending EXCEPT ![r] = Absent]
    /\ UNCHANGED <<now, lastPrune>>

Failed(r) ==
    /\ pending[r] # Absent
    /\ LET due  == now - lastPrune >= Window
           kept == IF due THEN Pruned(buckets) ELSE buckets
           keys == {pending[r].ip, pending[r].user}
       IN  /\ lastPrune' = IF due THEN now ELSE lastPrune
           /\ buckets' = [k \in Key |->
                 IF k \in keys THEN Fail(Bucket(kept, k)) ELSE kept[k]]
           /\ guesses' = [k \in Key |->
                 IF k \in keys THEN Append(guesses[k], now) ELSE guesses[k]]
    /\ pending' = [pending EXCEPT ![r] = Absent]
    /\ UNCHANGED now

(* Mutant: a successful login clears both counters                         *)
Succeeded_ResetsBoth(r) ==
    /\ pending[r] # Absent
    /\ buckets' = [buckets EXCEPT ![pending[r].user] = Absent, ![pending[r].ip] = Absent]
    /\ pending' = [pending EXCEPT ![r] = Absent]
    /\ UNCHANGED <<now, lastPrune, guesses>>

(* The password matched: reset(user)                                       *)
Succeeded(r) ==
    /\ pending[r] # Absent
    /\ buckets' = [buckets EXCEPT ![pending[r].user] = Absent]
    /\ pending' = [pending EXCEPT ![r] = Absent]
    /\ UNCHANGED <<now, lastPrune, guesses>>

Tick ==
    /\ now < MaxNow
    /\ now' = now + 1
    /\ UNCHANGED <<buckets, lastPrune, pending, guesses>>

LimiterNext ==
    \/ Tick
    \/ \E r \in Login : Failed(r) \/ Succeeded(r)
    \/ \E r \in Login, i \in Ip, u \in User : Admit(r, i, u)

LimiterSpec == LimiterInit /\ [][LimiterNext]_limiterVars

-----------------------------------------------------------------------------
GuessesAfter(k, from) == {j \in DOMAIN guesses[k] : guesses[k][j] > from}

(* MaxAttempts, or the logins in flight when they are more                 *)
Burst == IF MaxAttempts > Cardinality(Login) THEN MaxAttempts ELSE Cardinality(Login)

(* In a lockout period an address makes at most the wrong guesses that     *)
(* lock it and those in flight when it was locked, however requests        *)
(* overlap and whatever logins succeed meanwhile (ratelimit.py:3-6); where *)
(* the window is no shorter than the lockout, as by default                *)
(* (config.py:48-49).                                                      *)
GuessesBounded ==
    Window >= Lockout =>
        \A i \in Ip :
            Cardinality(GuessesAfter(i, now - Lockout)) <= Burst + Cardinality(Login) - 1

(* A locked key is refused, and Retry-After is the next full second: not   *)
(* too early, less than a second too late.                                 *)
RetryAfterSuffices ==
    \A k \in Key : buckets[k] # Absent /\ buckets[k].until > now =>
        /\ now + Second * RetryAfter({k}) >= buckets[k].until
        /\ now + Second * (RetryAfter({k}) - 1) <= buckets[k].until

(* Until it ends, the lockout of an address is neither lifted nor          *)
(* shortened: not by a prune, not by a login that succeeds.                *)
IpLockKept ==
    [][\A i \in Ip :
          buckets[i] # Absent /\ buckets[i].until > now =>
              buckets'[i] # Absent /\ buckets'[i].until >= buckets[i].until]_limiterVars

(* The map does not grow with every name ever tried: what a failed attempt *)
(* leaves in it failed less than two windows ago, or was locked less than  *)
(* one window ago.                                                         *)
OnlyRecentBuckets ==
    [][\A k \in Key :
          guesses' # guesses /\ buckets'[k] # Absent =>
              \/ \E j \in DOMAIN guesses'[k] : guesses'[k][j] > now - 2 * Window
              \/ buckets'[k].until > now - Window]_limiterVars
=============================================================================
