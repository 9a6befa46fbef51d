---------------------------- MODULE PoolManager ----------------------------
(***************************************************************************)
(* The connection pool cache of the server: class PoolManager in           *)
(* pg/connection.py.  A coroutine (a Proc) runs get, drop or close_all;    *)
(* an action is the code between two awaits, which asyncio runs without    *)
(* interruption.  PoolManager._lock is held across no await, so it is      *)
(* never contended and its sections are parts of the enclosing actions.    *)
(***************************************************************************)
EXTENDS Naturals, FiniteSets

CONSTANTS
    Proc,           \* coroutines calling the manager
    Profile,        \* ids of instance profiles
    Database,       \* database names
    PoolId,         \* identities of AsyncConnectionPool objects
    LockId,         \* identities of asyncio.Lock objects of _key_locks
    Unresponsive,   \* keys whose server never answers the probe
    MaxGeneration,  \* bound: drops of one profile between two starts
    None

Key == Profile \X Database

ASSUME NoneIsFresh == None \notin PoolId \cup LockId \cup Key
ASSUME UnresponsiveAreKeys == Unresponsive \subseteq Key
ASSUME MaxGenerationIsNat == MaxGeneration \in Nat

VARIABLES
    up,          \* between lifespan start and close_all
    pools,       \* self._pools
    keyLocks,    \* self._key_locks
    generation,  \* self._generation
    open,        \* pool objects opened and not closed
    pc,          \* where each coroutine is suspended
    key,         \* local of get: (profile_id, dbname)
    gen,         \* local of get: the generation read on entry
    lock,        \* local of get: key_lock
    ahead,       \* coroutines queued on key_lock before this one
    mine,        \* local of get: pool
    closing,     \* local of drop and close_all: pools still to close
    crossed      \* history: a drop of the profile ran since get was entered

shared == <<up, pools, keyLocks, generation, open>>
locals == <<pc, key, gen, lock, ahead, mine, closing, crossed>>
vars   == <<up, pools, keyLocks, generation, open,
            pc, key, gen, lock, ahead, mine, closing, crossed>>

Phase == {"idle",        \* not in the manager
          "waiting",     \* queued on the key lock
          "probing",     \* holds the key lock, AsyncConnection.connect
          "opening",     \* holds the key lock, pool.open
          "discarding",  \* closing a pool opened with stale settings
          "using",       \* get returned mine to the caller
          "closing"}     \* drop or close_all closing the pools it removed

InGet(p)   == pc[p] \in {"waiting", "probing", "opening"}
Holds(p)   == pc[p] \in {"probing", "opening"}

(* asyncio.Lock.locked(): false between release and the next waiter's turn *)
Locked(l)  == \E q \in Proc : Holds(q) /\ lock[q] = l
Waiters(l) == {q \in Proc : pc[q] = "waiting" /\ lock[q] = l}

(* A newly allocated object: an identity nothing refers to, if any is left *)
Fresh(S)   == IF S = {} THEN {} ELSE {CHOOSE x \in S : TRUE}
UnusedLock == LockId \ ({keyLocks[k] : k \in Key} \cup {lock[q] : q \in Proc})
UnusedPool == PoolId \ (open \cup {mine[q] : q \in Proc})

Init ==
    /\ up = TRUE
    /\ pools = [k \in Key |-> None]
    /\ keyLocks = [k \in Key |-> None]
    /\ generation = [f \in Profile |-> 0]
    /\ open = {}
    /\ pc = [p \in Proc |-> "idle"]
    /\ key = [p \in Proc |-> None]
    /\ gen = [p \in Proc |-> 0]
    /\ lock = [p \in Proc |-> None]
    /\ ahead = [p \in Proc |-> {}]
    /\ mine = [p \in Proc |-> None]
    /\ closing = [p \in Proc |-> {}]
    /\ crossed = [p \in Proc |-> FALSE]

-----------------------------------------------------------------------------
(* How a coroutine leaves get: with a pool, or with nothing                *)

Forget(p) ==
    /\ key' = [key EXCEPT ![p] = None]
    /\ gen' = [gen EXCEPT ![p] = 0]
    /\ lock' = [lock EXCEPT ![p] = None]
    /\ crossed' = [crossed EXCEPT ![p] = FALSE]
    /\ UNCHANGED closing

ReturnPool(p, q) ==
    /\ pc' = [pc EXCEPT ![p] = "using"]
    /\ mine' = [mine EXCEPT ![p] = q]
    /\ Forget(p)

Raise(p) ==
    /\ pc' = [pc EXCEPT ![p] = "idle"]
    /\ mine' = [mine EXCEPT ![p] = None]
    /\ Forget(p)

-----------------------------------------------------------------------------
(* get: the pool is cached                                                 *)
GetHit(p, k) ==
    /\ up
    /\ pc[p] = "idle"
    /\ pools[k] # None
    /\ ReturnPool(p, pools[k])
    /\ UNCHANGED <<shared, ahead>>

(* get: a lock from locks becomes the key lock; the generation is read.   *)
(* A free lock nobody queues for is taken at once (the second look at      *)
(* _pools cannot differ) and the probe starts; otherwise p queues.         *)
EnterWith(p, k, locks) ==
    /\ up
    /\ pc[p] = "idle"
    /\ pools[k] = None
    /\ \E l \in locks :
          /\ keyLocks' = [keyLocks EXCEPT ![k] = l]
          /\ lock' = [lock EXCEPT ![p] = l]
          /\ ahead' = [ahead EXCEPT ![p] = Waiters(l)]
          /\ pc' = [pc EXCEPT ![p] =
                IF Locked(l) \/ Waiters(l) # {} THEN "waiting" ELSE "probing"]
    /\ key' = [key EXCEPT ![p] = k]
    /\ gen' = [gen EXCEPT ![p] = generation[k[1]]]
    /\ crossed' = [crossed EXCEPT ![p] = FALSE]
    /\ UNCHANGED <<up, pools, generation, open, mine, closing>>

(* Mutants: a lock object per call; one lock for every key                  *)
GetMiss_OwnLock(p, k) == EnterWith(p, k, Fresh(UnusedLock))

GetMiss_OneLock(p, k) ==
    LET made == {keyLocks[j] : j \in Key} \ {None}
    IN  EnterWith(p, k, IF made = {} THEN Fresh(UnusedLock) ELSE made)

(* get: setdefault on _key_locks                                           *)
GetMiss(p, k) ==
    EnterWith(p, k, IF keyLocks[k] = None THEN Fresh(UnusedLock) ELSE {keyLocks[k]})

(* asyncio.Lock hands over in arrival order                                *)
Turn(p) ==
    /\ pc[p] = "waiting"
    /\ ahead[p] = {}
    /\ ~Locked(lock[p])

LeaveQueue(p) == ahead' = [q \in Proc |-> ahead[q] \ {p}]

(* Second look at _pools under the key lock: somebody opened it meanwhile  *)
AcquireHit(p) ==
    /\ Turn(p)
    /\ pools[key[p]] # None
    /\ LeaveQueue(p)
    /\ ReturnPool(p, pools[key[p]])
    /\ UNCHANGED shared

(* Mutants: no second look at _pools; the generation read after queueing    *)
AcquireMiss_NoSecondLook(p) ==
    /\ Turn(p)
    /\ LeaveQueue(p)
    /\ pc' = [pc EXCEPT ![p] = "probing"]
    /\ UNCHANGED <<shared, key, gen, lock, mine, closing, crossed>>

AcquireMiss_LateGeneration(p) ==
    /\ Turn(p)
    /\ pools[key[p]] = None
    /\ LeaveQueue(p)
    /\ pc' = [pc EXCEPT ![p] = "probing"]
    /\ gen' = [gen EXCEPT ![p] = generation[key[p][1]]]
    /\ UNCHANGED <<shared, key, lock, mine, closing, crossed>>

AcquireMiss(p) ==
    /\ Turn(p)
    /\ pools[key[p]] = None
    /\ LeaveQueue(p)
    /\ pc' = [pc EXCEPT ![p] = "probing"]
    /\ UNCHANGED <<shared, key, gen, lock, mine, closing, crossed>>

ProbeFail(p) ==
    /\ pc[p] = "probing"
    /\ Raise(p)
    /\ UNCHANGED <<shared, ahead>>

(* Mutant: open() started on a pool nothing refers to                      *)
ProbeOk_PoolNotKept(p) ==
    /\ pc[p] = "probing"
    /\ open' = open \cup Fresh(UnusedPool)
    /\ pc' = [pc EXCEPT ![p] = "opening"]
    /\ UNCHANGED <<up, pools, keyLocks, generation,
                   key, gen, lock, ahead, mine, closing, crossed>>

(* The probe succeeded; the pool object is made and its open() started     *)
ProbeOk(p) ==
    /\ pc[p] = "probing"
    /\ \E q \in Fresh(UnusedPool) :
          /\ mine' = [mine EXCEPT ![p] = q]
          /\ open' = open \cup {q}
    /\ pc' = [pc EXCEPT ![p] = "opening"]
    /\ UNCHANGED <<up, pools, keyLocks, generation,
                   key, gen, lock, ahead, closing, crossed>>

Stale(p) == generation[key[p][1]] # gen[p]

(* pool.open() returned and no drop ran since get was entered              *)
Cached(p) ==
    /\ pc[p] = "opening"
    /\ ~Stale(p)
    /\ pools' = [pools EXCEPT ![key[p]] = mine[p]]
    /\ ReturnPool(p, mine[p])
    /\ UNCHANGED <<up, keyLocks, generation, open, ahead>>

(* a drop ran: leave the key lock, then pool.close()                       *)
FoundStale(p) ==
    /\ pc[p] = "opening"
    /\ Stale(p)
    /\ pc' = [pc EXCEPT ![p] = "discarding"]
    /\ lock' = [lock EXCEPT ![p] = None]
    /\ UNCHANGED <<shared, key, gen, ahead, mine, closing, crossed>>

Discarded(p) ==
    /\ pc[p] = "discarding"
    /\ open' = open \ {mine[p]}
    /\ Raise(p)
    /\ UNCHANGED <<up, pools, keyLocks, generation, ahead>>

(* The caller is done with the pool it was given                           *)
Release(p) ==
    /\ pc[p] = "using"
    /\ Raise(p)
    /\ UNCHANGED <<shared, ahead>>

-----------------------------------------------------------------------------
(* drop: everything up to the first pool.close()                           *)

KeysOf(f) == {f} \X Database

CloseFirst(p, S) ==
    /\ closing' = [closing EXCEPT ![p] = S]
    /\ pc' = [pc EXCEPT ![p] = IF S = {} THEN "idle" ELSE "closing"]

(* Mutant: the pools are closed but stay in the dictionary                 *)
Drop_KeepsEntries(p, f) ==
    /\ up
    /\ pc[p] = "idle"
    /\ generation[f] < MaxGeneration
    /\ generation' = [generation EXCEPT ![f] = @ + 1]
    /\ CloseFirst(p, {pools[k] : k \in KeysOf(f)} \ {None})
    /\ crossed' = [q \in Proc |->
          crossed[q] \/ (InGet(q) /\ key[q] \in KeysOf(f))]
    /\ UNCHANGED <<up, pools, keyLocks, open, key, gen, lock, ahead, mine>>

Drop(p, f) ==
    /\ up
    /\ pc[p] = "idle"
    /\ generation[f] < MaxGeneration
    /\ generation' = [generation EXCEPT ![f] = @ + 1]
    /\ pools' = [k \in Key |-> IF k[1] = f THEN None ELSE pools[k]]
    /\ keyLocks' = [k \in Key |->
          IF k[1] = f /\ ~Locked(keyLocks[k]) THEN None ELSE keyLocks[k]]
    /\ CloseFirst(p, {pools[k] : k \in KeysOf(f)} \ {None})
    /\ crossed' = [q \in Proc |->
          crossed[q] \/ (InGet(q) /\ key[q] \in KeysOf(f))]
    /\ UNCHANGED <<up, open, key, gen, lock, ahead, mine>>

(* One awaited pool.close() of drop or close_all                           *)
ClosePool(p) ==
    /\ pc[p] = "closing"
    /\ \E q \in closing[p] :
          /\ open' = open \ {q}
          /\ CloseFirst(p, closing[p] \ {q})
    /\ UNCHANGED <<up, pools, keyLocks, generation,
                   key, gen, lock, ahead, mine, crossed>>

(* Mutant: the dictionary is cleared before its pools are listed           *)
CloseAll_ClearsFirst(p) ==
    /\ up
    /\ \A q \in Proc : pc[q] = "idle"
    /\ up' = FALSE
    /\ pools' = [k \in Key |-> None]
    /\ CloseFirst(p, {})
    /\ UNCHANGED <<keyLocks, generation, open, key, gen, lock, ahead, mine, crossed>>

(* close_all: the lifespan calls it once uvicorn has finished every request *)
CloseAll(p) ==
    /\ up
    /\ \A q \in Proc : pc[q] = "idle"
    /\ up' = FALSE
    /\ pools' = [k \in Key |-> None]
    /\ CloseFirst(p, {pools[k] : k \in Key} \ {None})
    /\ UNCHANGED <<keyLocks, generation, open, key, gen, lock, ahead, mine, crossed>>

(* The next process start makes a new PoolManager                          *)
Start ==
    /\ ~up
    /\ \A q \in Proc : pc[q] = "idle"
    /\ up' = TRUE
    /\ keyLocks' = [k \in Key |-> None]
    /\ generation' = [f \in Profile |-> 0]
    /\ UNCHANGED <<pools, open, locals>>

-----------------------------------------------------------------------------
(* The steps of a coroutine that is already inside the manager              *)
Continue(p) ==
    \/ AcquireHit(p) \/ AcquireMiss(p)
    \/ ProbeFail(p) \/ ProbeOk(p)
    \/ Cached(p) \/ FoundStale(p) \/ Discarded(p)
    \/ Release(p) \/ ClosePool(p)

Call(p) ==
    \/ \E k \in Key : GetHit(p, k) \/ GetMiss(p, k)
    \/ \E f \in Profile : Drop(p, f)
    \/ CloseAll(p)

Next == Start \/ \E p \in Proc : Call(p) \/ Continue(p)

Spec == Init /\ [][Next]_vars

(* Every awaited call returns, except probes of unresponsive servers: a    *)
(* probe ends at connect_timeout, pool.close() at psycopg_pool's timeout.  *)
Answered(p) == pc[p] = "probing" => key[p] \notin Unresponsive

FairSpec == Spec /\ \A p \in Proc : WF_vars(Answered(p) /\ Continue(p))

-----------------------------------------------------------------------------
TypeOK ==
    /\ up \in BOOLEAN
    /\ pools \in [Key -> PoolId \cup {None}]
    /\ keyLocks \in [Key -> LockId \cup {None}]
    /\ generation \in [Profile -> Nat]
    /\ open \subseteq PoolId
    /\ pc \in [Proc -> Phase]
    /\ key \in [Proc -> Key \cup {None}]
    /\ gen \in [Proc -> Nat]
    /\ lock \in [Proc -> LockId \cup {None}]
    /\ ahead \in [Proc -> SUBSET Proc]
    /\ mine \in [Proc -> PoolId \cup {None}]
    /\ closing \in [Proc -> SUBSET PoolId]
    /\ crossed \in [Proc -> BOOLEAN]
    /\ \A p \in Proc : InGet(p) => key[p] \in Key
    /\ \A p \in Proc : pc[p] \in {"opening", "discarding"} => mine[p] \in PoolId

(* Two coroutines that probe a server for the same key at the same time do *)
(* so on two sides of a drop: at most one of them can still cache its pool *)
(* ("Serialise that per (profile, database)", connection.py:111).          *)
OneOpenerPerKey ==
    \A p, q \in Proc :
        Holds(p) /\ Holds(q) /\ key[p] = key[q] /\ ~crossed[p] /\ ~crossed[q]
            => p = q

(* No pool is lost: every open pool is cached, or some coroutine still     *)
(* opens it, discards it or is about to close it.  Overwriting a cached    *)
(* pool in get, or forgetting one in drop, would leave connections to the  *)
(* server open for ever.                                                   *)
Owned(q) ==
    \/ \E k \in Key : pools[k] = q
    \/ \E p \in Proc : pc[p] \in {"opening", "discarding"} /\ mine[p] = q
    \/ \E p \in Proc : q \in closing[p]

NoLostPool == \A q \in open : Owned(q)

(* A cached pool is open, so get never returns one that was closed before. *)
CachedPoolIsOpen == \A k \in Key : pools[k] # None => pools[k] \in open

(* A get that was running when drop was called never puts its pool in the  *)
(* cache ("a pool opened across a drop used stale settings and is          *)
(* discarded", connection.py:113), wherever it was suspended at the time.  *)
StalePoolNeverCached ==
    [][\A p \in Proc :
          crossed[p] /\ pc[p] = "opening" => pools'[key[p]] # mine[p]]_vars

(* A get queued behind other openers of the same key is served, also when  *)
(* the servers of other keys never answer: one unreachable host does not   *)
(* stall the others (connection.py:110-111).                               *)
Served(p) ==
    \A k \in Key \ Unresponsive :
        (pc[p] = "waiting" /\ key[p] = k) ~> (pc[p] # "waiting")

(* Once the server has stopped, no pool stays open until the next start.   *)
StoppedMeansClosed ==
    ~up /\ (\A p \in Proc : pc[p] = "idle") => open = {}
=============================================================================
