----------------------- MODULE ProfileRequestsProofs -----------------------
(***************************************************************************)
(* The safety properties of PoolManager, for any number of coroutines,     *)
(* profiles, databases and drops.  The requests on profiles use it only    *)
(* through its own operations, so everything proved about it holds of      *)
(* them; and a pool of old settings is cached only where                   *)
(* OutdatedOnlyByLateGet says, for any number of requests, profiles,       *)
(* databases and edits.  What the server records beside the requests is of *)
(* the right profile.                                                      *)
(***************************************************************************)
EXTENDS Metrics, TLAPS

-----------------------------------------------------------------------------
(* The pool manager                                                        *)

(* A running get was crossed by a drop exactly when its generation is old. *)
GenerationInv ==
    \A p \in Proc : InGet(p) =>
        /\ gen[p] <= generation[key[p][1]]
        /\ crossed[p] <=> gen[p] # generation[key[p][1]]

(* A get no drop has crossed queues on, or holds, the lock now in the      *)
(* dictionary; a lock has one holder; and its holder found no pool.        *)
LockInv ==
    /\ \A p \in Proc : InGet(p) /\ ~crossed[p] =>
          lock[p] = keyLocks[key[p]] /\ lock[p] \in LockId
    /\ \A p, q \in Proc : Holds(p) /\ Holds(q) /\ lock[p] = lock[q] => p = q
    /\ \A p \in Proc : Holds(p) /\ ~crossed[p] => pools[key[p]] = None

(* An open pool has exactly one owner.                                     *)
Opening(p) == pc[p] \in {"opening", "discarding"}

OwnerInv ==
    /\ \A k \in Key : pools[k] # None => pools[k] \in open
    /\ \A j, k \in Key : pools[j] # None /\ pools[j] = pools[k] => j = k
    /\ \A p \in Proc : Opening(p) => mine[p] \in open
    /\ \A p \in Proc, k \in Key : Opening(p) => pools[k] # mine[p]
    /\ \A p, q \in Proc : Opening(p) /\ Opening(q) /\ mine[p] = mine[q] => p = q
    /\ \A p \in Proc : closing[p] \subseteq open
    /\ \A p \in Proc, k \in Key : pools[k] \notin closing[p]
    /\ \A p, q \in Proc : Opening(q) => mine[q] \notin closing[p]
    /\ \A p, q \in Proc : p # q => closing[p] \cap closing[q] = {}
    /\ \A p \in Proc : pc[p] # "closing" => closing[p] = {}

StoppedInv ==
    ~up => /\ \A k \in Key : pools[k] = None
           /\ \A p \in Proc : pc[p] \in {"idle", "closing"}

IInv == TypeOK /\ GenerationInv /\ LockInv /\ OwnerInv /\ StoppedInv /\ NoLostPool

-----------------------------------------------------------------------------
(* A key of the pool dictionary starts with a profile.                      *)
LEMMA KeyIsPair == \A k \in Key : k[1] \in Profile
  BY DEF Key

(* A pool object that get creates is one of those not made yet.            *)
LEMMA FreshIsMember == ASSUME NEW S, NEW x \in Fresh(S) PROVE x \in S
  BY DEF Fresh

(* A server that just started satisfies the inductive invariant.           *)
LEMMA InitIInv == Init => IInv
  BY DEF Init, IInv, TypeOK, GenerationInv, LockInv, OwnerInv, StoppedInv,
         NoLostPool, Phase, InGet, Holds, Opening

(* No step of get, drop, close_all or the restart leaves the types.         *)
LEMMA TypeStep == TypeOK /\ [Next]_vars => TypeOK'
<1> SUFFICES ASSUME TypeOK, [Next]_vars PROVE TypeOK'
  OBVIOUS
<1> USE DEF TypeOK, Phase, InGet
<1>1. CASE UNCHANGED vars
  BY <1>1 DEF vars
<1>2. CASE Start
  BY <1>2 DEF Start, locals
<1>3. ASSUME NEW p \in Proc, NEW k \in Key, GetHit(p, k) PROVE TypeOK'
  BY <1>3 DEF GetHit, ReturnPool, Forget, shared
<1>4. ASSUME NEW p \in Proc, NEW k \in Key, GetMiss(p, k) PROVE TypeOK'
  <2>1. PICK l \in IF keyLocks[k] = None THEN Fresh(UnusedLock) ELSE {keyLocks[k]} :
          /\ keyLocks' = [keyLocks EXCEPT ![k] = l]
          /\ lock' = [lock EXCEPT ![p] = l]
          /\ ahead' = [ahead EXCEPT ![p] = Waiters(l)]
          /\ pc' = [pc EXCEPT ![p] =
                IF Locked(l) \/ Waiters(l) # {} THEN "waiting" ELSE "probing"]
    BY <1>4 DEF GetMiss, EnterWith
  <2>2. l \in LockId
    BY <2>1, FreshIsMember DEF UnusedLock
  <2>3. Waiters(l) \in SUBSET Proc
    BY DEF Waiters
  <2>4. generation[k[1]] \in Nat
    BY KeyIsPair
  <2>5. QED
    BY <1>4, <2>1, <2>2, <2>3, <2>4 DEF GetMiss, EnterWith
<1>5. ASSUME NEW p \in Proc, NEW f \in Profile, Drop(p, f) PROVE TypeOK'
  <2>1. ({pools[k] : k \in KeysOf(f)} \ {None}) \subseteq PoolId
    BY DEF KeysOf, Key
  <2>2. QED
    BY <1>5, <2>1 DEF Drop, CloseFirst
<1>6. ASSUME NEW p \in Proc, CloseAll(p) PROVE TypeOK'
  <2>1. ({pools[k] : k \in Key} \ {None}) \subseteq PoolId
    OBVIOUS
  <2>2. QED
    BY <1>6, <2>1 DEF CloseAll, CloseFirst
<1>7. ASSUME NEW p \in Proc, AcquireHit(p) PROVE TypeOK'
  BY <1>7 DEF AcquireHit, Turn, LeaveQueue, ReturnPool, Forget, shared
<1>8. ASSUME NEW p \in Proc, AcquireMiss(p) PROVE TypeOK'
  BY <1>8 DEF AcquireMiss, Turn, LeaveQueue, shared
<1>9. ASSUME NEW p \in Proc, ProbeFail(p) PROVE TypeOK'
  BY <1>9 DEF ProbeFail, Raise, Forget, shared
<1>10. ASSUME NEW p \in Proc, ProbeOk(p) PROVE TypeOK'
  BY <1>10, FreshIsMember DEF ProbeOk, UnusedPool
<1>11. ASSUME NEW p \in Proc, Cached(p) PROVE TypeOK'
  BY <1>11 DEF Cached, ReturnPool, Forget
<1>12. ASSUME NEW p \in Proc, FoundStale(p) PROVE TypeOK'
  BY <1>12 DEF FoundStale, shared
<1>13. ASSUME NEW p \in Proc, Discarded(p) PROVE TypeOK'
  BY <1>13 DEF Discarded, Raise, Forget
<1>14. ASSUME NEW p \in Proc, Release(p) PROVE TypeOK'
  BY <1>14 DEF Release, Raise, Forget, shared
<1>15. ASSUME NEW p \in Proc, ClosePool(p) PROVE TypeOK'
  BY <1>15 DEF ClosePool, CloseFirst
<1>16. QED
  BY <1>1, <1>2, <1>3, <1>4, <1>5, <1>6, <1>7, <1>8, <1>9, <1>10, <1>11,
     <1>12, <1>13, <1>14, <1>15 DEF Next, Call, Continue

(* Every state the server reaches is well typed.                           *)
THEOREM TypeCorrect == Spec => []TypeOK
<1>1. Init => TypeOK
  BY InitIInv DEF IInv
<1>2. QED
  BY <1>1, TypeStep, PTL DEF Spec
-----------------------------------------------------------------------------
(* Generations only grow: one a call remembers is never ahead of drop's.     *)
LEMMA GenerationStep == TypeOK /\ GenerationInv /\ TypeOK' /\ [Next]_vars => GenerationInv'
<1> SUFFICES ASSUME TypeOK, GenerationInv, TypeOK', [Next]_vars PROVE GenerationInv'
  OBVIOUS
<1> USE DEF TypeOK, GenerationInv, InGet, Key
<1>1. CASE UNCHANGED vars
  BY <1>1 DEF vars
<1>2. CASE Start
  BY <1>2 DEF Start, locals
<1>3. ASSUME NEW p \in Proc, NEW k \in Key, GetHit(p, k) PROVE GenerationInv'
  BY <1>3 DEF GetHit, ReturnPool, Forget, shared
<1>4. ASSUME NEW p \in Proc, AcquireHit(p) PROVE GenerationInv'
  BY <1>4 DEF AcquireHit, Turn, LeaveQueue, ReturnPool, Forget, shared
<1>5. ASSUME NEW p \in Proc, AcquireMiss(p) PROVE GenerationInv'
  BY <1>5 DEF AcquireMiss, Turn, LeaveQueue, shared
<1>6. ASSUME NEW p \in Proc, ProbeFail(p) PROVE GenerationInv'
  BY <1>6 DEF ProbeFail, Raise, Forget, shared
<1>7. ASSUME NEW p \in Proc, ProbeOk(p) PROVE GenerationInv'
  BY <1>7 DEF ProbeOk
<1>8. ASSUME NEW p \in Proc, Cached(p) PROVE GenerationInv'
  BY <1>8 DEF Cached, Stale, ReturnPool, Forget
<1>9. ASSUME NEW p \in Proc, FoundStale(p) PROVE GenerationInv'
  BY <1>9 DEF FoundStale, Stale, shared
<1>10. ASSUME NEW p \in Proc, Discarded(p) PROVE GenerationInv'
  BY <1>10 DEF Discarded, Raise, Forget
<1>11. ASSUME NEW p \in Proc, Release(p) PROVE GenerationInv'
  BY <1>11 DEF Release, Raise, Forget, shared
<1>12. ASSUME NEW p \in Proc, ClosePool(p) PROVE GenerationInv'
  BY <1>12 DEF ClosePool, CloseFirst
<1>13. ASSUME NEW p \in Proc, CloseAll(p) PROVE GenerationInv'
  BY <1>13 DEF CloseAll, CloseFirst
<1>14. ASSUME NEW p \in Proc, NEW f \in Profile, Drop(p, f) PROVE GenerationInv'
  <2> SUFFICES ASSUME NEW q \in Proc, InGet(q)'
               PROVE  /\ gen'[q] <= generation'[key'[q][1]]
                      /\ crossed'[q] <=> gen'[q] # generation'[key'[q][1]]
    BY DEF GenerationInv
  <2>1. InGet(q) /\ gen'[q] = gen[q] /\ key'[q] = key[q] /\ key[q] \in Key
    BY <1>14 DEF Drop, CloseFirst
  <2>2. crossed'[q] <=> crossed[q] \/ key[q] \in KeysOf(f)
    BY <1>14, <2>1 DEF Drop
  <2>3. key[q] \in KeysOf(f) <=> key[q][1] = f
    BY <2>1 DEF KeysOf
  <2>4. generation' = [generation EXCEPT ![f] = generation[f] + 1]
    BY <1>14 DEF Drop
  <2>5. CASE key[q][1] = f
    <3>1. generation'[f] = generation[f] + 1 /\ gen[q] <= generation[f]
      BY <2>1, <2>4, <2>5
    <3>2. gen[q] \in Nat /\ generation[f] \in Nat
      OBVIOUS
    <3>3. gen'[q] <= generation'[f] /\ gen'[q] # generation'[f]
      BY <2>1, <3>1, <3>2
    <3>4. QED
      BY <2>1, <2>2, <2>3, <2>5, <3>3
  <2>6. CASE key[q][1] # f
    <3>1. generation'[key[q][1]] = generation[key[q][1]]
      BY <2>1, <2>4, <2>6
    <3>2. QED
      BY <2>1, <2>2, <2>3, <2>6, <3>1
  <2>7. QED
    BY <2>5, <2>6
<1>15. ASSUME NEW p \in Proc, NEW k \in Key, GetMiss(p, k) PROVE GenerationInv'
  <2> SUFFICES ASSUME NEW q \in Proc, InGet(q)'
               PROVE  /\ gen'[q] <= generation'[key'[q][1]]
                      /\ crossed'[q] <=> gen'[q] # generation'[key'[q][1]]
    BY DEF GenerationInv
  <2>1. CASE q = p
    <3>1. key'[q] = k /\ gen'[q] = generation[k[1]] /\ ~crossed'[q]
      BY <1>15, <2>1 DEF GetMiss, EnterWith
    <3>2. generation'[k[1]] = generation[k[1]] /\ generation[k[1]] \in Nat
      BY <1>15, KeyIsPair DEF GetMiss, EnterWith
    <3>3. QED
      BY <3>1, <3>2
  <2>2. CASE q # p
    BY <1>15, <2>2 DEF GetMiss, EnterWith
  <2>3. QED
    BY <2>1, <2>2
<1>16. QED
  BY <1>1, <1>2, <1>3, <1>4, <1>5, <1>6, <1>7, <1>8, <1>9,
     <1>10, <1>11, <1>12, <1>13, <1>14, <1>15
     DEF Next, Call, Continue

(* A key lock has one holder, and a call that opens a pool holds the lock   *)
(* that is in the dictionary, unless a drop of its profile removed it.      *)
LEMMA LockStep == TypeOK /\ GenerationInv /\ LockInv /\ TypeOK' /\ [Next]_vars => LockInv'
<1> SUFFICES ASSUME TypeOK, GenerationInv, LockInv, TypeOK', [Next]_vars PROVE LockInv'
  OBVIOUS
<1> USE DEF TypeOK, LockInv, InGet, Holds
<1>1. CASE UNCHANGED vars
  BY <1>1 DEF vars
<1>2. CASE Start
  BY <1>2 DEF Start, locals
<1>3. ASSUME NEW p \in Proc, NEW k \in Key, GetHit(p, k) PROVE LockInv'
  BY <1>3 DEF GetHit, ReturnPool, Forget, shared
<1>4. ASSUME NEW p \in Proc, AcquireHit(p) PROVE LockInv'
  BY <1>4 DEF AcquireHit, Turn, LeaveQueue, ReturnPool, Forget, shared
<1>5. ASSUME NEW p \in Proc, AcquireMiss(p) PROVE LockInv'
  BY <1>5 DEF AcquireMiss, Turn, Locked, LeaveQueue, shared
<1>6. ASSUME NEW p \in Proc, ProbeFail(p) PROVE LockInv'
  BY <1>6 DEF ProbeFail, Raise, Forget, shared
<1>7. ASSUME NEW p \in Proc, ProbeOk(p) PROVE LockInv'
  BY <1>7 DEF ProbeOk
<1>8. ASSUME NEW p \in Proc, Cached(p) PROVE LockInv'
  <2>1. Holds(p) /\ ~crossed[p] /\ key[p] \in Key
    BY <1>8 DEF Cached, Stale, GenerationInv
  <2>2. \A q \in Proc : Holds(q) /\ ~crossed[q] /\ key[q] = key[p] => q = p
    BY <2>1
  <2>3. /\ pc' = [pc EXCEPT ![p] = "using"]
        /\ lock' = [lock EXCEPT ![p] = None]
        /\ key' = [key EXCEPT ![p] = None]
        /\ crossed' = [crossed EXCEPT ![p] = FALSE]
        /\ pools' = [pools EXCEPT ![key[p]] = mine[p]]
        /\ keyLocks' = keyLocks
    BY <1>8 DEF Cached, ReturnPool, Forget
  <2>4. \A q \in Proc : InGet(q)' => q # p /\ InGet(q) /\ (Holds(q)' => Holds(q))
    BY <2>3
  <2>5. \A q \in Proc : q # p =>
           lock'[q] = lock[q] /\ key'[q] = key[q] /\ crossed'[q] = crossed[q]
    BY <2>3
  <2>6. \A q \in Proc : Holds(q)' /\ ~crossed'[q] => pools'[key'[q]] = None
    <3> SUFFICES ASSUME NEW q \in Proc, Holds(q)', ~crossed'[q]
                 PROVE  pools'[key'[q]] = None
      OBVIOUS
    <3>1. q # p /\ Holds(q) /\ ~crossed[q] /\ key'[q] = key[q] /\ key[q] \in Key
      BY <2>4, <2>5
    <3>2. key[q] # key[p]
      BY <2>2, <3>1
    <3>3. QED
      BY <2>1, <2>3, <3>1, <3>2
  <2>7. QED
    BY <2>3, <2>4, <2>5, <2>6
<1>9. ASSUME NEW p \in Proc, FoundStale(p) PROVE LockInv'
  BY <1>9 DEF FoundStale, Stale, shared
<1>10. ASSUME NEW p \in Proc, Discarded(p) PROVE LockInv'
  BY <1>10 DEF Discarded, Raise, Forget
<1>11. ASSUME NEW p \in Proc, Release(p) PROVE LockInv'
  BY <1>11 DEF Release, Raise, Forget, shared
<1>12. ASSUME NEW p \in Proc, ClosePool(p) PROVE LockInv'
  BY <1>12 DEF ClosePool, CloseFirst
<1>13. ASSUME NEW p \in Proc, CloseAll(p) PROVE LockInv'
  BY <1>13 DEF CloseAll, CloseFirst
<1>14. ASSUME NEW p \in Proc, NEW f \in Profile, Drop(p, f) PROVE LockInv'
  <2>1. \A q \in Proc : /\ InGet(q)' => InGet(q) /\ key[q] \in Key
                        /\ Holds(q)' => Holds(q)
    BY <1>14 DEF Drop, CloseFirst
  <2>2. UNCHANGED <<lock, key>>
    BY <1>14 DEF Drop
  <2>3. \A q \in Proc : InGet(q) /\ ~crossed'[q] =>
           ~crossed[q] /\ key[q] \notin KeysOf(f)
    BY <1>14 DEF Drop
  <2>4. \A k \in Key : k \notin KeysOf(f) => k[1] # f
    BY DEF Key, KeysOf
  <2>5. \A k \in Key : k[1] # f => keyLocks'[k] = keyLocks[k] /\ pools'[k] = pools[k]
    BY <1>14 DEF Drop
  <2>6. QED
    BY <2>1, <2>2, <2>3, <2>4, <2>5
<1>15. ASSUME NEW p \in Proc, NEW k \in Key, GetMiss(p, k) PROVE LockInv'
  <2>1. PICK l \in IF keyLocks[k] = None THEN Fresh(UnusedLock) ELSE {keyLocks[k]} :
          /\ keyLocks' = [keyLocks EXCEPT ![k] = l]
          /\ lock' = [lock EXCEPT ![p] = l]
          /\ ahead' = [ahead EXCEPT ![p] = Waiters(l)]
          /\ pc' = [pc EXCEPT ![p] =
                IF Locked(l) \/ Waiters(l) # {} THEN "waiting" ELSE "probing"]
    BY <1>15 DEF GetMiss, EnterWith
  <2>2. l \in LockId /\ (keyLocks[k] # None => keyLocks[k] = l)
    BY <2>1, FreshIsMember DEF UnusedLock
  <2>3. /\ pools' = pools
        /\ pools[k] = None
        /\ key' = [key EXCEPT ![p] = k]
        /\ crossed' = [crossed EXCEPT ![p] = FALSE]
    BY <1>15 DEF GetMiss, EnterWith
  <2>4. \A q \in Proc \ {p} : /\ InGet(q)' = InGet(q) /\ Holds(q)' = Holds(q)
                              /\ key'[q] = key[q] /\ lock'[q] = lock[q]
                              /\ crossed'[q] = crossed[q]
    BY <2>1, <2>3
  <2>5. \A q \in Proc : InGet(q)' /\ ~crossed'[q] =>
           lock'[q] = keyLocks'[key'[q]] /\ lock'[q] \in LockId
    <3>1. key'[p] = k /\ lock'[p] = l /\ keyLocks'[k] = l
      BY <2>1, <2>3
    <3>2. \A q \in Proc \ {p} : InGet(q) /\ ~crossed[q] =>
             key[q] \in Key /\ lock[q] = keyLocks[key[q]] /\ lock[q] \in LockId
      OBVIOUS
    <3>3. \A j \in Key : keyLocks[j] # None => keyLocks'[j] = keyLocks[j]
      BY <2>1, <2>2
    <3>4. QED
      BY <2>2, <2>4, <3>1, <3>2, <3>3, NoneIsFresh
  <2>6. \A q, r \in Proc : Holds(q)' /\ Holds(r)' /\ lock'[q] = lock'[r] => q = r
    <3>1. Holds(p)' => ~Locked(l)
      BY <2>1
    <3>2. \A q \in Proc \ {p} : Holds(q) /\ lock[q] = l => Locked(l)
      BY DEF Locked
    <3>3. lock'[p] = l
      BY <2>1
    <3>4. QED
      BY <2>4, <3>1, <3>2, <3>3
  <2>7. \A q \in Proc : Holds(q)' /\ ~crossed'[q] => pools'[key'[q]] = None
    BY <2>3, <2>4
  <2>8. QED
    BY <2>5, <2>6, <2>7
<1>16. QED
  BY <1>1, <1>2, <1>3, <1>4, <1>5, <1>6, <1>7, <1>8, <1>9,
     <1>10, <1>11, <1>12, <1>13, <1>14, <1>15
     DEF Next, Call, Continue

(* close_all leaves no pool in the dictionary and none being opened.        *)
LEMMA StoppedStep == TypeOK /\ StoppedInv /\ TypeOK' /\ [Next]_vars => StoppedInv'
<1> SUFFICES ASSUME TypeOK, StoppedInv, TypeOK', [Next]_vars PROVE StoppedInv'
  OBVIOUS
<1> USE DEF TypeOK, StoppedInv
<1>1. CASE UNCHANGED vars
  BY <1>1 DEF vars
<1>2. CASE Start
  BY <1>2 DEF Start, locals
<1>3. ASSUME NEW p \in Proc, NEW k \in Key, GetHit(p, k) PROVE StoppedInv'
  BY <1>3 DEF GetHit, ReturnPool, Forget, shared
<1>4. ASSUME NEW p \in Proc, AcquireHit(p) PROVE StoppedInv'
  BY <1>4 DEF AcquireHit, Turn, LeaveQueue, ReturnPool, Forget, shared
<1>5. ASSUME NEW p \in Proc, AcquireMiss(p) PROVE StoppedInv'
  BY <1>5 DEF AcquireMiss, Turn, LeaveQueue, shared
<1>6. ASSUME NEW p \in Proc, ProbeFail(p) PROVE StoppedInv'
  BY <1>6 DEF ProbeFail, Raise, Forget, shared
<1>7. ASSUME NEW p \in Proc, ProbeOk(p) PROVE StoppedInv'
  BY <1>7 DEF ProbeOk
<1>8. ASSUME NEW p \in Proc, Cached(p) PROVE StoppedInv'
  <2>1. up
    BY <1>8 DEF Cached
  <2>2. QED
    BY <1>8, <2>1 DEF Cached
<1>9. ASSUME NEW p \in Proc, FoundStale(p) PROVE StoppedInv'
  BY <1>9 DEF FoundStale, Stale, shared
<1>10. ASSUME NEW p \in Proc, Discarded(p) PROVE StoppedInv'
  BY <1>10 DEF Discarded, Raise, Forget
<1>11. ASSUME NEW p \in Proc, Release(p) PROVE StoppedInv'
  BY <1>11 DEF Release, Raise, Forget, shared
<1>12. ASSUME NEW p \in Proc, ClosePool(p) PROVE StoppedInv'
  BY <1>12 DEF ClosePool, CloseFirst
<1>13. ASSUME NEW p \in Proc, CloseAll(p) PROVE StoppedInv'
  BY <1>13 DEF CloseAll, CloseFirst
<1>14. ASSUME NEW p \in Proc, NEW f \in Profile, Drop(p, f) PROVE StoppedInv'
  BY <1>14 DEF Drop, CloseFirst, KeysOf
<1>15. ASSUME NEW p \in Proc, NEW k \in Key, GetMiss(p, k) PROVE StoppedInv'
  BY <1>15 DEF GetMiss, EnterWith
<1>16. QED
  BY <1>1, <1>2, <1>3, <1>4, <1>5, <1>6, <1>7, <1>8, <1>9,
     <1>10, <1>11, <1>12, <1>13, <1>14, <1>15
     DEF Next, Call, Continue

(* A pool has one owner: the dictionary, or one call that opens or closes it. *)
LEMMA OwnerStep == TypeOK /\ OwnerInv /\ StoppedInv /\ TypeOK' /\ [Next]_vars => OwnerInv'
<1> SUFFICES ASSUME TypeOK, OwnerInv, StoppedInv, TypeOK', [Next]_vars PROVE OwnerInv'
  OBVIOUS
<1> USE DEF TypeOK, OwnerInv, Opening
<1>1. CASE UNCHANGED vars
  BY <1>1 DEF vars
<1>2. CASE Start
  BY <1>2 DEF Start, locals
<1>3. ASSUME NEW p \in Proc, NEW k \in Key, GetHit(p, k) PROVE OwnerInv'
  BY <1>3 DEF GetHit, ReturnPool, Forget, shared
<1>4. ASSUME NEW p \in Proc, AcquireHit(p) PROVE OwnerInv'
  BY <1>4 DEF AcquireHit, Turn, LeaveQueue, ReturnPool, Forget, shared
<1>5. ASSUME NEW p \in Proc, AcquireMiss(p) PROVE OwnerInv'
  BY <1>5 DEF AcquireMiss, Turn, LeaveQueue, shared
<1>6. ASSUME NEW p \in Proc, ProbeFail(p) PROVE OwnerInv'
  BY <1>6 DEF ProbeFail, Raise, Forget, shared
<1>7. ASSUME NEW p \in Proc, ProbeOk(p) PROVE OwnerInv'
  <2>1. PICK q \in Fresh(UnusedPool) :
          mine' = [mine EXCEPT ![p] = q] /\ open' = open \cup {q}
    BY <1>7 DEF ProbeOk
  <2>2. q \in PoolId /\ q \notin open /\ (\A r \in Proc : mine[r] # q)
    BY <2>1, FreshIsMember DEF UnusedPool
  <2>3. /\ pc' = [pc EXCEPT ![p] = "opening"]
        /\ pc[p] = "probing"
        /\ UNCHANGED <<pools, closing>>
    BY <1>7 DEF ProbeOk
  <2>4. \A k \in Key : pools[k] # q
    BY <2>2, NoneIsFresh
  <2>5. \A r \in Proc : q \notin closing[r]
    BY <2>2
  <2>6. /\ Opening(p)'
        /\ mine'[p] = q
        /\ \A r \in Proc \ {p} : Opening(r)' = Opening(r) /\ mine'[r] = mine[r]
    BY <2>1, <2>3
  <2>7. \A r \in Proc : (pc'[r] = "closing") = (pc[r] = "closing")
    BY <2>3
  <2>8. QED
    BY <2>1, <2>2, <2>3, <2>4, <2>5, <2>6, <2>7
<1>8. ASSUME NEW p \in Proc, Cached(p) PROVE OwnerInv'
  BY <1>8 DEF Cached, Stale, ReturnPool, Forget
<1>9. ASSUME NEW p \in Proc, FoundStale(p) PROVE OwnerInv'
  BY <1>9 DEF FoundStale, Stale, shared
<1>10. ASSUME NEW p \in Proc, Discarded(p) PROVE OwnerInv'
  BY <1>10 DEF Discarded, Raise, Forget
<1>11. ASSUME NEW p \in Proc, Release(p) PROVE OwnerInv'
  BY <1>11 DEF Release, Raise, Forget, shared
<1>12. ASSUME NEW p \in Proc, ClosePool(p) PROVE OwnerInv'
  BY <1>12 DEF ClosePool, CloseFirst
<1>13. ASSUME NEW p \in Proc, CloseAll(p) PROVE OwnerInv'
  <2> DEFINE S == {pools[k] : k \in Key} \ {None}
  <2>1. /\ \A r \in Proc : pc[r] = "idle"
        /\ pools' = [k \in Key |-> None]
        /\ closing' = [closing EXCEPT ![p] = S]
        /\ pc' = [pc EXCEPT ![p] = IF S = {} THEN "idle" ELSE "closing"]
        /\ UNCHANGED <<open, mine>>
    BY <1>13 DEF CloseAll, CloseFirst
  <2>2. S \subseteq open /\ None \notin S
    OBVIOUS
  <2>3. \A r \in Proc : closing[r] = {} /\ ~Opening(r)'
    BY <2>1
  <2>4. \A r \in Proc : closing'[r] = IF r = p THEN S ELSE {}
    BY <2>1, <2>3
  <2>5. \A r \in Proc : pc'[r] # "closing" => closing'[r] = {}
    BY <2>1, <2>4
  <2>6. \A r \in Proc, k \in Key : pools'[k] = None /\ pools'[k] \notin closing'[r]
    BY <2>1, <2>2, <2>4
  <2> HIDE DEF S
  <2>7. QED
    BY <2>1, <2>2, <2>3, <2>4, <2>5, <2>6
<1>14. ASSUME NEW p \in Proc, NEW f \in Profile, Drop(p, f) PROVE OwnerInv'
  <2> DEFINE S == {pools[k] : k \in KeysOf(f)} \ {None}
  <2>1. /\ pc[p] = "idle"
        /\ pools' = [k \in Key |-> IF k[1] = f THEN None ELSE pools[k]]
        /\ closing' = [closing EXCEPT ![p] = S]
        /\ pc' = [pc EXCEPT ![p] = IF S = {} THEN "idle" ELSE "closing"]
        /\ UNCHANGED <<open, mine>>
    BY <1>14 DEF Drop, CloseFirst
  <2>2. \A k \in KeysOf(f) : k \in Key /\ k[1] = f
    BY DEF KeysOf, Key
  <2>3. S \subseteq open /\ None \notin S
    BY <2>2
  <2>4. \A r \in Proc : Opening(r) => mine[r] \notin S
    BY <2>2
  <2>5. \A r \in Proc : closing[r] \cap S = {}
    BY <2>2
  <2>6. \A k \in Key : pools'[k] = None \/ (pools'[k] = pools[k] /\ pools[k] \notin S)
    BY <2>1, <2>2
  <2>7. \A r \in Proc : Opening(r)' = Opening(r)
    BY <2>1
  <2> HIDE DEF S
  <2>8. \A r \in Proc : closing'[r] = IF r = p THEN S ELSE closing[r]
    BY <2>1
  <2>9. \A r \in Proc : pc'[r] # "closing" => closing'[r] = {}
    BY <2>1, <2>8
  <2>10. \A r \in Proc, k \in Key : pools'[k] \notin closing'[r]
    <3>1. \A r \in Proc : None \notin closing[r]
      BY NoneIsFresh
    <3>2. \A r \in Proc, k \in Key : pools[k] \notin closing[r]
      OBVIOUS
    <3>3. ASSUME NEW r \in Proc, NEW k \in Key PROVE pools'[k] \notin closing'[r]
      <4>1. CASE r = p
        BY <2>3, <2>6, <2>8, <4>1
      <4>2. CASE r # p
        <5>1. closing'[r] = closing[r]
          BY <2>8, <4>2
        <5>2. pools'[k] = None \/ pools'[k] = pools[k]
          BY <2>6
        <5>3. QED
          BY <3>1, <3>2, <5>1, <5>2
      <4>3. QED
        BY <4>1, <4>2
    <3>4. QED
      BY <3>3
  <2>11. \A q, r \in Proc : q # r => closing'[q] \cap closing'[r] = {}
    BY <2>5, <2>8
  <2>12. \A j, k \in Key : pools'[j] # None /\ pools'[j] = pools'[k] => j = k
    BY <2>6
  <2>13. \A r \in Proc, k \in Key : Opening(r)' => pools'[k] # mine'[r]
    BY <2>1, <2>6, <2>7, NoneIsFresh
  <2>14. QED
    BY <2>1, <2>3, <2>4, <2>6, <2>7, <2>8, <2>9, <2>10, <2>11, <2>12, <2>13
<1>15. ASSUME NEW p \in Proc, NEW k \in Key, GetMiss(p, k) PROVE OwnerInv'
  BY <1>15 DEF GetMiss, EnterWith
<1>16. QED
  BY <1>1, <1>2, <1>3, <1>4, <1>5, <1>6, <1>7, <1>8, <1>9,
     <1>10, <1>11, <1>12, <1>13, <1>14, <1>15
     DEF Next, Call, Continue

(* No step leaves an open pool without an owner.                            *)
LEMMA LostStep == TypeOK /\ GenerationInv /\ LockInv /\ OwnerInv /\ NoLostPool /\ TypeOK' /\ [Next]_vars => NoLostPool'
<1> SUFFICES ASSUME TypeOK, GenerationInv, LockInv, OwnerInv, NoLostPool, TypeOK', [Next]_vars PROVE NoLostPool'
  OBVIOUS
<1> USE DEF TypeOK, NoLostPool, Owned
<1>1. CASE UNCHANGED vars
  BY <1>1 DEF vars
<1>2. CASE Start
  BY <1>2 DEF Start, locals
<1>3. ASSUME NEW p \in Proc, NEW k \in Key, GetHit(p, k) PROVE NoLostPool'
  BY <1>3 DEF GetHit, ReturnPool, Forget, shared
<1>4. ASSUME NEW p \in Proc, AcquireHit(p) PROVE NoLostPool'
  BY <1>4 DEF AcquireHit, Turn, LeaveQueue, ReturnPool, Forget, shared
<1>5. ASSUME NEW p \in Proc, AcquireMiss(p) PROVE NoLostPool'
  BY <1>5 DEF AcquireMiss, Turn, LeaveQueue, shared
<1>6. ASSUME NEW p \in Proc, ProbeFail(p) PROVE NoLostPool'
  BY <1>6 DEF ProbeFail, Raise, Forget, shared
<1>7. ASSUME NEW p \in Proc, ProbeOk(p) PROVE NoLostPool'
  BY <1>7 DEF ProbeOk
<1>8. ASSUME NEW p \in Proc, Cached(p) PROVE NoLostPool'
  <2>1. Holds(p) /\ ~crossed[p] /\ key[p] \in Key
    BY <1>8 DEF Cached, Stale, GenerationInv, InGet, Holds
  <2>2. pools[key[p]] = None
    BY <2>1 DEF LockInv
  <2>3. QED
    BY <1>8, <2>1, <2>2, NoneIsFresh DEF Cached, ReturnPool, Forget
<1>9. ASSUME NEW p \in Proc, FoundStale(p) PROVE NoLostPool'
  BY <1>9 DEF FoundStale, Stale, shared
<1>10. ASSUME NEW p \in Proc, Discarded(p) PROVE NoLostPool'
  BY <1>10 DEF Discarded, Raise, Forget
<1>11. ASSUME NEW p \in Proc, Release(p) PROVE NoLostPool'
  BY <1>11 DEF Release, Raise, Forget, shared
<1>12. ASSUME NEW p \in Proc, ClosePool(p) PROVE NoLostPool'
  BY <1>12 DEF ClosePool, CloseFirst
<1>13. ASSUME NEW p \in Proc, CloseAll(p) PROVE NoLostPool'
  <2> SUFFICES ASSUME NEW q \in open' PROVE Owned(q)'
    OBVIOUS
  <2>1. /\ \A r \in Proc : pc[r] = "idle"
        /\ closing' = [closing EXCEPT ![p] = {pools[k] : k \in Key} \ {None}]
        /\ open' = open
    BY <1>13 DEF CloseAll, CloseFirst
  <2>2. PICK k \in Key : pools[k] = q
    <3>1. Owned(q)
      BY <2>1
    <3>2. \A r \in Proc : closing[r] = {}
      BY <2>1 DEF OwnerInv
    <3>3. QED
      BY <2>1, <3>1, <3>2 DEF Owned
  <2>3. q # None
    BY <2>1, NoneIsFresh
  <2>4. q \in closing'[p]
    BY <2>1, <2>2, <2>3
  <2>5. QED
    BY <2>4 DEF Owned
<1>14. ASSUME NEW p \in Proc, NEW f \in Profile, Drop(p, f) PROVE NoLostPool'
  <2> SUFFICES ASSUME NEW q \in open' PROVE Owned(q)'
    OBVIOUS
  <2> DEFINE S == {pools[k] : k \in KeysOf(f)} \ {None}
  <2>1. /\ pc[p] = "idle"
        /\ pools' = [k \in Key |-> IF k[1] = f THEN None ELSE pools[k]]
        /\ closing' = [closing EXCEPT ![p] = S]
        /\ pc' = [pc EXCEPT ![p] = IF S = {} THEN "idle" ELSE "closing"]
        /\ UNCHANGED <<open, mine>>
    BY <1>14 DEF Drop, CloseFirst
  <2>2. closing[p] = {}
    BY <2>1 DEF OwnerInv
  <2>3. Owned(q) /\ q # None
    BY <2>1, NoneIsFresh
  <2>4. CASE \E k \in Key : pools[k] = q
    <3>1. PICK k \in Key : pools[k] = q
      BY <2>4
    <3>2. CASE k[1] = f
      <4>1. k \in KeysOf(f)
        BY <3>2 DEF KeysOf, Key
      <4>2. q \in closing'[p]
        BY <2>1, <2>3, <3>1, <4>1
      <4>3. QED
        BY <4>2 DEF Owned
    <3>3. CASE k[1] # f
      BY <2>1, <3>1, <3>3 DEF Owned
    <3>4. QED
      BY <3>2, <3>3
  <2>5. CASE \E r \in Proc : pc[r] \in {"opening", "discarding"} /\ mine[r] = q
    BY <2>1, <2>5 DEF Owned
  <2>6. CASE \E r \in Proc : q \in closing[r]
    BY <2>1, <2>2, <2>6 DEF Owned
  <2>7. QED
    BY <2>3, <2>4, <2>5, <2>6 DEF Owned
<1>15. ASSUME NEW p \in Proc, NEW k \in Key, GetMiss(p, k) PROVE NoLostPool'
  BY <1>15 DEF GetMiss, EnterWith
<1>16. QED
  BY <1>1, <1>2, <1>3, <1>4, <1>5, <1>6, <1>7, <1>8, <1>9,
     <1>10, <1>11, <1>12, <1>13, <1>14, <1>15
     DEF Next, Call, Continue

-----------------------------------------------------------------------------
(* The conjuncts together are inductive.                                    *)
LEMMA IInvStep == IInv /\ [Next]_vars => IInv'
  BY TypeStep, GenerationStep, LockStep, StoppedStep, OwnerStep, LostStep DEF IInv

(* The inductive invariant holds in every state the server reaches.         *)
LEMMA Invariance == Spec => []IInv
  BY InitIInv, IInvStep, PTL DEF Spec

(* No open pool is ever without an owner that will reuse or close it: get  *)
(* overwrites nothing and drop forgets nothing.                            *)
THEOREM PoolsAreNotLost == Spec => []NoLostPool
<1>1. IInv => NoLostPool
  BY DEF IInv
<1>2. QED
  BY <1>1, Invariance, PTL

(* get only ever hands out cached pools that are open.                     *)
THEOREM CachedPoolsAreOpen == Spec => []CachedPoolIsOpen
<1>1. IInv => CachedPoolIsOpen
  BY DEF IInv, OwnerInv, CachedPoolIsOpen
<1>2. QED
  BY <1>1, Invariance, PTL

(* Openers of one key that no drop has crossed are one coroutine.          *)
THEOREM OpenersAreSerialised == Spec => []OneOpenerPerKey
<1>1. IInv => OneOpenerPerKey
  BY DEF IInv, LockInv, OneOpenerPerKey, InGet, Holds
<1>2. QED
  BY <1>1, Invariance, PTL

(* After close_all and its last close, nothing is left open.               *)
THEOREM ShutdownClosesPools == Spec => []StoppedMeansClosed
<1>1. ASSUME IInv, ~up, \A p \in Proc : pc[p] = "idle", NEW q \in open
      PROVE FALSE
  <2>1. Owned(q) /\ q # None
    BY <1>1, NoneIsFresh DEF IInv, NoLostPool, TypeOK
  <2>2. (\A k \in Key : pools[k] # q) /\ (\A p \in Proc : closing[p] = {})
    BY <1>1, <2>1 DEF IInv, StoppedInv, OwnerInv
  <2>3. QED
    BY <1>1, <2>1, <2>2 DEF Owned
<1>2. IInv => StoppedMeansClosed
  BY <1>1 DEF StoppedMeansClosed
<1>3. QED
  BY <1>2, Invariance, PTL

(* A pool opened by a get that a drop has crossed is never cached, however *)
(* many coroutines and drops there are.                                    *)
THEOREM StalePoolsAreNotCached == Spec => StalePoolNeverCached
<1>1. ASSUME IInv, [Next]_vars, NEW p \in Proc, crossed[p], pc[p] = "opening"
      PROVE  pools'[key[p]] # mine[p]
  <2>1. key[p] \in Key /\ mine[p] \in PoolId /\ pools[key[p]] # mine[p]
    BY <1>1 DEF IInv, TypeOK, OwnerInv, InGet, Opening
  <2>2. pools'[key[p]] \in {pools[key[p]], None} \/ \E q \in Proc : Cached(q)
    BY <1>1, <2>1 DEF IInv, TypeOK, Next, Call, Continue, vars, Start, locals,
       GetHit, GetMiss, EnterWith, AcquireHit, AcquireMiss, ProbeFail, ProbeOk, FoundStale,
       Discarded, Release, ClosePool, Drop, CloseAll, shared
  <2>3. ASSUME NEW q \in Proc, Cached(q) PROVE pools'[key[p]] # mine[p]
    <3>1. q # p
      BY <1>1, <2>3 DEF IInv, GenerationInv, InGet, Cached, Stale
    <3>2. mine[q] # mine[p]
      BY <1>1, <2>3, <3>1 DEF IInv, OwnerInv, Opening, Cached
    <3>3. QED
      BY <1>1, <2>1, <2>3, <3>2 DEF Cached, IInv, TypeOK
  <2>4. QED
    BY <2>1, <2>2, <2>3, NoneIsFresh
<1>2. IInv /\ [Next]_vars =>
        [\A p \in Proc :
            crossed[p] /\ pc[p] = "opening" => pools'[key[p]] # mine[p]]_vars
  BY <1>1
<1>3. QED
  BY <1>2, Invariance, PTL DEF Spec, StalePoolNeverCached

-----------------------------------------------------------------------------
(* The inductive invariant, next to that of the pool manager               *)

(* How far a request is says where it is suspended in the manager          *)
Linked(p) ==
    /\ stage[p] \in {"none", "arrived", "loaded", "committed"} => pc[p] = "idle"
    /\ stage[p] = "dropped" => pc[p] \in {"idle", "closing"}
    /\ stage[p] = "inget" => job[p] = "read" /\ pc[p] \notin {"idle", "closing"}
    /\ stage[p] = "committed" => job[p] = "update"
    /\ stage[p] # "none" => target[p] \in Key
    /\ stage[p] \notin {"none", "arrived"} => seen[p] # None
    /\ InGet(p) => stage[p] = "inget" /\ key[p] = target[p]

RequestType ==
    /\ row \in [Profile -> Nat \cup {None}]
    /\ version \in Nat
    /\ job \in [Proc -> Jobs]
    /\ stage \in [Proc -> Stages]
    /\ target \in [Proc -> Key \cup {None}]
    /\ seen \in [Proc -> Nat \cup {None}]
    /\ late \in [Proc -> BOOLEAN]
    /\ made \in [PoolId -> [settings : Nat \cup {None}, late : BOOLEAN] \cup {None}]

(* Settings s are those of the profile, or an edit owes the drop; and no   *)
(* deletion is past its drop                                               *)
Fit(s, f) == (s = row[f] \/ DropPending(f)) /\ ~DeletePending(f)

(* A get that no drop crossed still has settings that fit                  *)
GetInv(p) ==
    /\ InGet(p) /\ ~crossed[p] /\ ~late[p] => Fit(seen[p], key[p][1])
    /\ pc[p] = "opening" => made[mine[p]] = [settings |-> seen[p], late |-> late[p]]

CacheInv(k) ==
    pools[k] # None =>
        /\ made[pools[k]].settings # None
        /\ made[pools[k]].late \/ Fit(made[pools[k]].settings, k[1])

RInv ==
    /\ RequestType
    /\ \A p \in Proc : Linked(p) /\ GetInv(p)
    /\ \A k \in Key : CacheInv(k)

-----------------------------------------------------------------------------
(* Every step of a request is one of the pool manager, or none             *)
LEMMA RequestIsPoolStep ==
    ASSUME RequestType, \A p \in Proc : Linked(p), [RequestNext]_allVars
    PROVE  [Next]_vars
    <1>1. CASE UNCHANGED allVars
        BY <1>1 DEF allVars
    <1>2. ASSUME NEW p \in Proc, NEW k \in Key, NEW j \in {"read", "update", "delete"}, Arrive(p, j, k)
          PROVE  UNCHANGED vars
        BY <1>2 DEF Arrive
    <1>3. ASSUME NEW f \in Profile, Create(f)
          PROVE  UNCHANGED vars
        BY <1>3 DEF Create
    <1>4. ASSUME NEW p \in Proc, Step(p)
          PROVE  [Next]_vars
        <2>1. CASE LoadProfile(p) \/ CommitUpdate(p) \/ UpdateFails(p) \/ UpdateDone(p) \/ DeleteCommit(p)
            BY <2>1 DEF LoadProfile, CommitUpdate, UpdateFails, UpdateDone, DeleteCommit
        <2>2. CASE EnterGet(p)
            <3>1. target[p] \in Key
                BY <2>2 DEF EnterGet, Linked
            <3> QED BY <2>2, <3>1 DEF EnterGet, Next, Call
        <2>3. CASE InManager(p)
            BY <2>3 DEF InManager, Next
        <2>4. CASE UpdateDrop(p) \/ DeleteDrop(p)
            <3>1. target[p][1] \in Profile
                BY <2>4, KeyIsPair DEF UpdateDrop, DeleteDrop, Linked
            <3> QED BY <2>4, <3>1 DEF UpdateDrop, DeleteDrop, Next, Call
        <2> QED BY <1>4, <2>1, <2>2, <2>3, <2>4 DEF Step
    <1> QED BY <1>1, <1>2, <1>3, <1>4 DEF RequestNext

(* What the manager does to a coroutine that goes on inside it             *)
LEMMA ContinueMoves ==
    ASSUME TypeOK, NEW p \in Proc, Continue(p)
    PROVE  /\ pc[p] # "idle"
           /\ pc[p] = "closing" => pc'[p] \in {"idle", "closing"}
           /\ pc[p] # "closing" => pc'[p] # "closing"
           /\ InGet(p)' => InGet(p) /\ key'[p] = key[p] /\ crossed'[p] = crossed[p]
           /\ pc'[p] = "opening" => ProbeOk(p)
           /\ pools' = pools \/ Cached(p)
           /\ generation' = generation
           /\ \A q \in Proc \ {p} : /\ pc'[q] = pc[q] /\ key'[q] = key[q] /\ crossed'[q] = crossed[q]
                                    /\ mine'[q] = mine[q]
    <1>1. CASE AcquireHit(p)
        BY <1>1 DEF AcquireHit, Turn, ReturnPool, Forget, TypeOK, InGet, shared
    <1>2. CASE AcquireMiss(p)
        BY <1>2 DEF AcquireMiss, Turn, TypeOK, InGet, shared
    <1>3. CASE ProbeFail(p)
        BY <1>3 DEF ProbeFail, Raise, Forget, TypeOK, InGet, shared
    <1>4. CASE ProbeOk(p)
        BY <1>4 DEF ProbeOk, TypeOK, InGet
    <1>5. CASE Cached(p)
        BY <1>5 DEF Cached, ReturnPool, Forget, TypeOK, InGet
    <1>6. CASE FoundStale(p)
        BY <1>6 DEF FoundStale, TypeOK, InGet, shared
    <1>7. CASE Discarded(p)
        BY <1>7 DEF Discarded, Raise, Forget, TypeOK, InGet
    <1>8. CASE Release(p)
        BY <1>8 DEF Release, Raise, Forget, TypeOK, InGet, shared
    <1>9. CASE ClosePool(p)
        BY <1>9 DEF ClosePool, CloseFirst, TypeOK, InGet
    <1> QED BY <1>1, <1>2, <1>3, <1>4, <1>5, <1>6, <1>7, <1>8, <1>9 DEF Continue

(* and to one that enters                                                  *)
LEMMA EnterMoves ==
    ASSUME TypeOK, NEW p \in Proc, NEW k \in Key, GetHit(p, k) \/ GetMiss(p, k)
    PROVE  /\ pc'[p] \in {"waiting", "probing", "using"}
           /\ InGet(p)' => key'[p] = k
           /\ \A q \in Proc \ {p} : /\ pc'[q] = pc[q] /\ key'[q] = key[q] /\ crossed'[q] = crossed[q]
                                    /\ mine'[q] = mine[q]
           /\ open' = open /\ pools' = pools /\ generation' = generation
    <1>1. CASE GetHit(p, k)
        BY <1>1 DEF GetHit, ReturnPool, Forget, TypeOK, InGet, shared
    <1>2. CASE GetMiss(p, k)
        BY <1>2 DEF GetMiss, EnterWith, TypeOK, InGet
    <1> QED BY <1>1, <1>2

(* A drop crosses every get of its profile and empties its cache           *)
LEMMA DropMoves ==
    ASSUME TypeOK, NEW p \in Proc, NEW f \in Profile, Drop(p, f)
    PROVE  /\ pc[p] = "idle" /\ pc'[p] \in {"idle", "closing"}
           /\ key' = key /\ open' = open /\ mine' = mine /\ generation'[f] # generation[f]
           /\ \A q \in Proc \ {p} : pc'[q] = pc[q]
           /\ \A q \in Proc : crossed[q] => crossed'[q]
           /\ \A q \in Proc : InGet(q) /\ key[q][1] = f => crossed'[q]
           /\ \A k \in Key : pools'[k] = IF k[1] = f THEN None ELSE pools[k]
    <1>1. \A q \in Proc : InGet(q) => key[q] \in Key
        BY DEF TypeOK
    <1>2. \A k \in Key : k[1] = f => k \in KeysOf(f)
        BY DEF Key, KeysOf
    <1>3. generation'[f] # generation[f]
        BY DEF Drop, TypeOK
    <1> QED BY <1>1, <1>2, <1>3 DEF Drop, CloseFirst, TypeOK

-----------------------------------------------------------------------------
(* The types and the links of a request                                    *)
LEMMA RequestTypeStep ==
    ASSUME RequestType, TypeOK, \A p \in Proc : Linked(p), [RequestNext]_allVars
    PROVE  RequestType'
    <1>1. CASE UNCHANGED allVars
        BY <1>1 DEF allVars, RequestType
    <1>2. ASSUME NEW p \in Proc, NEW k \in Key, NEW j \in {"read", "update", "delete"}, Arrive(p, j, k)
          PROVE  RequestType'
        BY <1>2 DEF Arrive, Goto, RequestType, Jobs, Stages
    <1>3. ASSUME NEW f \in Profile, Create(f)
          PROVE  RequestType'
        BY <1>3 DEF Create, requests, RequestType
    <1>4. ASSUME NEW p \in Proc, Step(p)
          PROVE  RequestType'
        <2>1. stage[p] # "none" => target[p] \in Key /\ target[p][1] \in Profile
            BY KeyIsPair DEF Linked
        <2>2. EndRequest(p) =>
                /\ job' \in [Proc -> Jobs] /\ stage' \in [Proc -> Stages] /\ target' \in [Proc -> Key \cup {None}]
                /\ seen' \in [Proc -> Nat \cup {None}] /\ late' \in [Proc -> BOOLEAN]
            BY DEF EndRequest, Goto, RequestType, Jobs, Stages
        <2>3. CASE LoadProfile(p)
            <3>1. RowOf(p) \in Nat \cup {None}
                BY <2>1, <2>3 DEF LoadProfile, RowOf, RequestType
            <3>2. CASE RowOf(p) = None
                BY <2>2, <2>3, <3>2 DEF LoadProfile, RequestType
            <3>3. CASE RowOf(p) # None
                BY <2>3, <3>1, <3>3 DEF LoadProfile, Goto, RequestType, Stages
            <3> QED BY <3>2, <3>3
        <2>4. CASE EnterGet(p)
            <3> DEFINE l == \/ seen[p] # RowOf(p) /\ ~DropPending(target[p][1])
                            \/ DeletePending(target[p][1])
            <3>1. late' = [late EXCEPT ![p] = l] /\ l \in BOOLEAN
                BY <2>4 DEF EnterGet
            <3> HIDE DEF l
            <3> QED BY <2>4, <3>1 DEF EnterGet, Goto, RequestType, Stages
        <2>5. CASE InManager(p)
            <3>1. \A q \in PoolId :
                    made'[q] = CASE q \notin open' -> None
                                 [] q \in open     -> made[q]
                                 [] OTHER          -> [settings |-> seen[p], late |-> late[p]]
                BY <2>5 DEF InManager, TrackPools
            <3>2. [settings |-> seen[p], late |-> late[p]] \in [settings : Nat \cup {None}, late : BOOLEAN]
                BY DEF RequestType
            <3>3. \A q \in PoolId : made'[q] \in [settings : Nat \cup {None}, late : BOOLEAN] \cup {None}
                BY <3>1, <3>2 DEF RequestType
            <3>4. made' \in [PoolId -> [settings : Nat \cup {None}, late : BOOLEAN] \cup {None}]
                BY <2>5, <3>3 DEF InManager, TrackPools
            <3> QED BY <2>2, <2>5, <3>4 DEF InManager, requests, RequestType
        <2>6. CASE CommitUpdate(p)
            BY <2>1, <2>6 DEF CommitUpdate, Goto, RequestType, Stages
        <2>7. CASE UpdateFails(p) \/ UpdateDone(p)
            BY <2>2, <2>7 DEF UpdateFails, UpdateDone, RequestType
        <2>8. CASE UpdateDrop(p) \/ DeleteDrop(p)
            BY <2>8 DEF UpdateDrop, DeleteDrop, Goto, RequestType, Stages
        <2>9. CASE DeleteCommit(p)
            BY <2>1, <2>2, <2>9 DEF DeleteCommit, RequestType
        <2> QED BY <1>4, <2>3, <2>4, <2>5, <2>6, <2>7, <2>8, <2>9 DEF Step
    <1> QED BY <1>1, <1>2, <1>3, <1>4 DEF RequestNext

(* A request that is over is linked to nothing                             *)
LEMMA EndedLinked ==
    ASSUME RequestType, NEW p \in Proc, EndRequest(p), pc'[p] = "idle"
    PROVE  Linked(p)'
    BY DEF EndRequest, Goto, RequestType, Linked, InGet

(* A request that does nothing stays linked                                *)
Still(q) ==
    /\ stage'[q] = stage[q] /\ job'[q] = job[q] /\ target'[q] = target[q]
    /\ seen'[q] = seen[q] /\ late'[q] = late[q]

(* and so does one whose step is another's                               *)
LEMMA StillLinked ==
    ASSUME NEW q \in Proc, Linked(q), Still(q), pc'[q] = pc[q], key'[q] = key[q]
    PROVE  Linked(q)'
    BY DEF Still, Linked, InGet

(* A step of one request leaves the others where they are                *)
LEMMA OthersStill ==
    ASSUME RequestType, TypeOK, NEW p \in Proc, Linked(p), NEW q \in Proc, q # p,
           Step(p) \/ \E k \in Key, j \in {"read", "update", "delete"} : Arrive(p, j, k)
    PROVE  Still(q) /\ pc'[q] = pc[q] /\ key'[q] = key[q]
    <1>1. EndRequest(p) => Still(q)
        BY DEF EndRequest, Goto, RequestType, Still
    <1>2. CASE \E k \in Key, j \in {"read", "update", "delete"} : Arrive(p, j, k)
        BY <1>2 DEF Arrive, Goto, RequestType, Still, vars
    <1>3. CASE LoadProfile(p)
        BY <1>1, <1>3 DEF LoadProfile, Goto, RequestType, Still, vars
    <1>4. CASE EnterGet(p)
        <2>1. target[p] \in Key
            BY <1>4 DEF EnterGet, Linked
        <2> QED BY <1>4, <2>1, EnterMoves DEF EnterGet, Goto, RequestType, Still
    <1>5. CASE InManager(p)
        BY <1>1, <1>5, ContinueMoves DEF InManager, requests, Still
    <1>6. CASE CommitUpdate(p)
        BY <1>6 DEF CommitUpdate, Goto, RequestType, Still, vars
    <1>7. CASE UpdateFails(p) \/ UpdateDone(p) \/ DeleteCommit(p)
        BY <1>1, <1>7 DEF UpdateFails, UpdateDone, DeleteCommit, vars
    <1>8. CASE UpdateDrop(p) \/ DeleteDrop(p)
        <2>1. target[p][1] \in Profile
            BY <1>8, KeyIsPair DEF UpdateDrop, DeleteDrop, Linked
        <2> QED BY <1>8, <2>1, DropMoves DEF UpdateDrop, DeleteDrop, Goto, RequestType, Still
    <1> QED BY <1>2, <1>3, <1>4, <1>5, <1>6, <1>7, <1>8 DEF Step

(* and keeps its own place in step with the manager                      *)
LEMMA OwnLinked ==
    ASSUME RequestType, TypeOK, NEW p \in Proc, Linked(p),
           Step(p) \/ \E k \in Key, j \in {"read", "update", "delete"} : Arrive(p, j, k)
    PROVE  Linked(p)'
    <1>1. CASE \E k \in Key, j \in {"read", "update", "delete"} : Arrive(p, j, k)
        BY <1>1 DEF Arrive, Goto, RequestType, Linked, InGet, vars
    <1>2. CASE LoadProfile(p)
        <2>1. CASE RowOf(p) = None
            BY <1>2, <2>1, EndedLinked DEF LoadProfile, Linked, vars
        <2>2. CASE RowOf(p) # None
            BY <1>2, <2>2 DEF LoadProfile, Goto, RequestType, Linked, InGet, vars
        <2> QED BY <2>1, <2>2
    <1>3. CASE EnterGet(p)
        <2>1. target[p] \in Key
            BY <1>3 DEF EnterGet, Linked
        <2> QED BY <1>3, <2>1, EnterMoves DEF EnterGet, Goto, RequestType, Linked, InGet
    <1>4. CASE InManager(p)
        <2>1. CASE job[p] = "read" /\ pc'[p] = "idle"
            BY <1>4, <2>1, EndedLinked DEF InManager
        <2>2. CASE ~(job[p] = "read" /\ pc'[p] = "idle")
            <3>1. Still(p)
                BY <1>4, <2>2 DEF InManager, requests, Still
            <3>2. stage[p] \in {"inget", "dropped"}
                BY <1>4, ContinueMoves DEF InManager, Linked, RequestType, Stages
            <3>3. stage[p] = "inget" => pc'[p] \notin {"idle", "closing"}
                BY <1>4, <2>2, ContinueMoves DEF InManager, Linked
            <3>4. stage[p] = "dropped" => pc'[p] \in {"idle", "closing"}
                BY <1>4, ContinueMoves DEF InManager, Linked
            <3>5. InGet(p)' => key'[p] = key[p] /\ InGet(p)
                BY <1>4, ContinueMoves DEF InManager
            <3> QED BY <3>1, <3>2, <3>3, <3>4, <3>5 DEF Still, Linked
        <2> QED BY <2>1, <2>2
    <1>5. CASE CommitUpdate(p)
        BY <1>5 DEF CommitUpdate, Goto, RequestType, Linked, InGet, vars
    <1>6. CASE UpdateFails(p) \/ UpdateDone(p) \/ DeleteCommit(p)
        BY <1>6, EndedLinked DEF UpdateFails, UpdateDone, DeleteCommit, Linked, vars
    <1>7. CASE UpdateDrop(p) \/ DeleteDrop(p)
        <2>1. target[p][1] \in Profile
            BY <1>7, KeyIsPair DEF UpdateDrop, DeleteDrop, Linked
        <2> QED BY <1>7, <2>1, DropMoves DEF UpdateDrop, DeleteDrop, Goto, RequestType, Linked, InGet
    <1> QED BY <1>1, <1>2, <1>3, <1>4, <1>5, <1>6, <1>7 DEF Step

(* No step unlinks a request                                             *)
LEMMA LinkedStep ==
    ASSUME RequestType, TypeOK, \A p \in Proc : Linked(p), [RequestNext]_allVars, NEW q \in Proc
    PROVE  Linked(q)'
    <1>1. CASE UNCHANGED allVars \/ \E f \in Profile : Create(f)
        BY <1>1, StillLinked DEF allVars, Create, requests, vars, Still
    <1>2. ASSUME NEW p \in Proc, Step(p) \/ \E k \in Key, j \in {"read", "update", "delete"} : Arrive(p, j, k)
          PROVE  Linked(q)'
        BY <1>2, OwnLinked, OthersStill, StillLinked
    <1> QED BY <1>1, <1>2 DEF RequestNext

-----------------------------------------------------------------------------
(* Settings that fit go on fitting until a drop of the profile             *)
Drops(p, f) == (UpdateDrop(p) \/ DeleteDrop(p)) /\ target[p][1] = f

(* Only the drop that was owed makes them unfit                            *)
LEMMA FitKept ==
    ASSUME RequestType, TypeOK, \A p \in Proc : Linked(p), [RequestNext]_allVars,
           NEW f \in Profile, NEW v, v # None, Fit(v, f), ~ \E p \in Proc : Drops(p, f)
    PROVE  Fit(v, f)'
    <1>1. CASE UNCHANGED allVars
        BY <1>1 DEF allVars, Fit, DropPending, DeletePending
    <1>2. CASE \E g \in Profile : Create(g)
        BY <1>2 DEF Create, requests, Fit, DropPending, DeletePending, RequestType
    <1>3. ASSUME NEW p \in Proc, Step(p) \/ \E k \in Key, j \in {"read", "update", "delete"} : Arrive(p, j, k)
          PROVE  Fit(v, f)'
        <2>1. \A q \in Proc \ {p} : Still(q)
            BY <1>3, OthersStill
        <2>2. (DropPending(f) /\ ~(stage[p] = "committed" /\ target[p][1] = f)) => DropPending(f)'
            BY <2>1 DEF DropPending, Still
        <2>3. ~(job'[p] = "delete" /\ stage'[p] = "dropped" /\ target'[p][1] = f) => ~DeletePending(f)'
            BY <2>1 DEF DeletePending, Still, Fit
        <2>4. EndRequest(p) => stage'[p] = "none"
            BY DEF EndRequest, Goto, RequestType
        <2>5. CASE \E k \in Key, j \in {"read", "update", "delete"} : Arrive(p, j, k)
            <3>1. stage[p] = "none" /\ stage'[p] = "arrived" /\ row' = row
                BY <2>5 DEF Arrive, Goto, RequestType
            <3> QED BY <3>1, <2>2, <2>3 DEF Fit
        <2>6. CASE LoadProfile(p)
            <3>1. stage[p] = "arrived" /\ stage'[p] \in {"none", "loaded"} /\ row' = row
                BY <2>4, <2>6 DEF LoadProfile, Goto, RequestType
            <3> QED BY <3>1, <2>2, <2>3 DEF Fit
        <2>7. CASE EnterGet(p)
            <3>1. stage[p] = "loaded" /\ stage'[p] = "inget" /\ row' = row
                BY <2>7 DEF EnterGet, Goto, RequestType
            <3> QED BY <3>1, <2>2, <2>3 DEF Fit
        <2>8. CASE InManager(p)
            <3>1. stage[p] # "committed" /\ row' = row
                BY <2>8, ContinueMoves DEF InManager, Linked
            <3>2. stage'[p] = "none" \/ Still(p)
                BY <2>4, <2>8 DEF InManager, requests, Still
            <3>3. ~DeletePending(f)'
                BY <2>3, <3>2 DEF Fit, DeletePending, Still
            <3> QED BY <3>1, <3>3, <2>2 DEF Fit
        <2>9. CASE CommitUpdate(p)
            <3>1. stage[p] = "loaded" /\ stage'[p] = "committed" /\ target' = target
                BY <2>9 DEF CommitUpdate, Goto, RequestType
            <3>2. CASE target[p][1] = f
                BY <3>1, <3>2, <2>3 DEF Fit, DropPending
            <3>3. CASE target[p][1] # f
                <4>1. row'[f] = row[f]
                    BY <2>9, <3>3 DEF CommitUpdate, RequestType
                <4> QED BY <3>1, <4>1, <2>2, <2>3 DEF Fit
            <3> QED BY <3>2, <3>3
        <2>10. CASE UpdateFails(p) \/ UpdateDone(p)
            <3>1. stage[p] \in {"loaded", "dropped"} /\ stage'[p] = "none" /\ row' = row
                BY <2>4, <2>10 DEF UpdateFails, UpdateDone
            <3> QED BY <3>1, <2>2, <2>3 DEF Fit
        <2>11. CASE UpdateDrop(p) \/ DeleteDrop(p)
            <3>1. target[p][1] # f /\ target' = target /\ row' = row
                BY <2>11 DEF Drops, UpdateDrop, DeleteDrop
            <3> QED BY <3>1, <2>2, <2>3 DEF Fit
        <2>12. CASE DeleteCommit(p)
            <3>1. job[p] = "delete" /\ stage[p] = "dropped" /\ stage'[p] = "none"
                BY <2>4, <2>12 DEF DeleteCommit
            <3>2. target[p][1] # f
                BY <3>1 DEF Fit, DeletePending
            <3>3. row'[f] = row[f]
                BY <2>12, <3>2 DEF DeleteCommit, RequestType
            <3> QED BY <3>1, <3>3, <2>2, <2>3 DEF Fit
        <2> QED BY <1>3, <2>5, <2>6, <2>7, <2>8, <2>9, <2>10, <2>11, <2>12 DEF Step
    <1> QED BY <1>1, <1>2, <1>3 DEF RequestNext

(* What a pool was made with is remembered while it is open                *)
LEMMA MadeKept ==
    ASSUME RequestType, TypeOK, \A p \in Proc : Linked(p), [RequestNext]_allVars,
           NEW q \in PoolId, q \in open, q \in open'
    PROVE  made'[q] = made[q]
    <1>1. CASE UNCHANGED allVars
        BY <1>1 DEF allVars
    <1>2. CASE \E f \in Profile : Create(f)
        BY <1>2 DEF Create
    <1>3. CASE \E p \in Proc, k \in Key, j \in {"read", "update", "delete"} : Arrive(p, j, k)
        BY <1>3 DEF Arrive
    <1>4. ASSUME NEW p \in Proc, Step(p)
          PROVE  made'[q] = made[q]
        BY <1>4 DEF Step, LoadProfile, EnterGet, InManager, TrackPools, CommitUpdate, UpdateFails, UpdateDrop,
                    UpdateDone, DeleteDrop, DeleteCommit
    <1> QED BY <1>1, <1>2, <1>3, <1>4 DEF RequestNext

-----------------------------------------------------------------------------
(* A drop changes the generation, which no other step does                 *)
LEMMA DropsChangeGeneration ==
    ASSUME TypeOK, \A p \in Proc : Linked(p), NEW p \in Proc, NEW f \in Profile, Drops(p, f)
    PROVE  /\ generation' # generation
           /\ \A q \in Proc : InGet(q) /\ key[q][1] = f => crossed'[q]
           /\ \A k \in Key : k[1] = f => pools'[k] = None
    BY DropMoves DEF Drops, UpdateDrop, DeleteDrop

(* What a request inside get keeps while it stays there                    *)
LEMMA StaysInGet ==
    ASSUME RequestType, TypeOK, \A p \in Proc : Linked(p), [RequestNext]_allVars,
           NEW q \in Proc, InGet(q)', ~EnterGet(q)
    PROVE  /\ InGet(q) /\ Still(q) /\ key'[q] = key[q] /\ (crossed[q] => crossed'[q])
           /\ pc'[q] = "opening" => \/ pc[q] = "opening" /\ mine'[q] = mine[q]
                                    \/ InManager(q) /\ ProbeOk(q)
    <1>1. CASE UNCHANGED allVars \/ \E f \in Profile : Create(f)
        BY <1>1 DEF allVars, vars, Create, requests, InGet, Still
    <1>2. ASSUME NEW p \in Proc, p # q,
                 Step(p) \/ \E k \in Key, j \in {"read", "update", "delete"} : Arrive(p, j, k)
          PROVE  /\ InGet(q) /\ Still(q) /\ key'[q] = key[q] /\ (crossed[q] => crossed'[q])
                 /\ mine'[q] = mine[q] /\ pc'[q] = pc[q]
        <2>1. Still(q) /\ pc'[q] = pc[q] /\ key'[q] = key[q]
            BY <1>2, OthersStill
        <2>2. CASE EnterGet(p)
            <3>1. target[p] \in Key
                BY <2>2 DEF EnterGet, Linked
            <3> QED BY <1>2, <2>1, <2>2, <3>1, EnterMoves DEF EnterGet, InGet
        <2>3. CASE InManager(p)
            BY <1>2, <2>1, <2>3, ContinueMoves DEF InManager, InGet
        <2>4. CASE UpdateDrop(p) \/ DeleteDrop(p)
            <3>1. target[p][1] \in Profile
                BY <2>4, KeyIsPair DEF UpdateDrop, DeleteDrop, Linked
            <3> QED BY <1>2, <2>1, <2>4, <3>1, DropMoves DEF UpdateDrop, DeleteDrop, InGet
        <2>5. CASE UNCHANGED vars
            BY <2>1, <2>5 DEF vars, InGet
        <2> QED BY <1>2, <2>2, <2>3, <2>4, <2>5 DEF Step, Arrive, LoadProfile, CommitUpdate, UpdateFails,
                                                    UpdateDone, DeleteCommit
    <1>3. ASSUME Step(q) \/ \E k \in Key, j \in {"read", "update", "delete"} : Arrive(q, j, k)
          PROVE  /\ InGet(q) /\ Still(q) /\ key'[q] = key[q] /\ (crossed[q] => crossed'[q])
                 /\ InManager(q) /\ (pc'[q] = "opening" => ProbeOk(q))
        <2>1. ASSUME UNCHANGED vars, stage[q] # "inget"
              PROVE  FALSE
            BY <2>1 DEF vars, InGet, Linked
        <2>2. InManager(q)
            <3>1. ~(UpdateDrop(q) \/ DeleteDrop(q))
                <4> SUFFICES ASSUME UpdateDrop(q) \/ DeleteDrop(q)
                             PROVE  FALSE
                    OBVIOUS
                <4>1. target[q][1] \in Profile
                    BY KeyIsPair DEF UpdateDrop, DeleteDrop, Linked
                <4> QED BY <4>1, DropMoves DEF UpdateDrop, DeleteDrop, InGet
            <3> QED BY <1>3, <2>1, <3>1 DEF Step, Arrive, LoadProfile, CommitUpdate, UpdateFails, UpdateDone, DeleteCommit
        <2>3. InGet(q) /\ key'[q] = key[q] /\ crossed'[q] = crossed[q] /\ (pc'[q] = "opening" => ProbeOk(q))
            BY <2>2, ContinueMoves DEF InManager
        <2>4. Still(q)
            BY <2>2 DEF InManager, requests, Still, InGet
        <2> QED BY <2>2, <2>3, <2>4
    <1>4. \/ UNCHANGED allVars \/ \E f \in Profile : Create(f)
          \/ Step(q) \/ \E k \in Key, j \in {"read", "update", "delete"} : Arrive(q, j, k)
          \/ \E p \in Proc \ {q} : Step(p) \/ \E k \in Key, j \in {"read", "update", "delete"} : Arrive(p, j, k)
        BY DEF RequestNext
    <1>5. CASE UNCHANGED allVars \/ \E f \in Profile : Create(f)
        BY <1>1, <1>5 DEF allVars, vars, Create
    <1> QED BY <1>1, <1>2, <1>3, <1>4, <1>5

(* No step makes settings of a get unfit without a drop that crosses it  *)
LEMMA GetStep ==
    ASSUME IInv, IInv', RequestType, \A p \in Proc : Linked(p) /\ GetInv(p), [RequestNext]_allVars, NEW q \in Proc
    PROVE  GetInv(q)'
    <1>1. TypeOK /\ OwnerInv /\ OwnerInv' /\ TypeOK'
        BY DEF IInv
    <1>2. ASSUME InGet(q)', ~crossed'[q], ~late'[q]
          PROVE  Fit(seen[q], key[q][1])'
        <2>1. CASE EnterGet(q)
            <3>1. target[q] \in Key /\ target[q][1] \in Profile /\ seen[q] # None
                BY <2>1, KeyIsPair DEF EnterGet, Linked
            <3>2. Fit(seen[q], target[q][1])
                BY <1>2, <2>1 DEF EnterGet, Fit, RowOf, RequestType
            <3>3. key'[q] = target[q] /\ generation' = generation
                BY <1>1, <1>2, <2>1, <3>1, EnterMoves DEF EnterGet
            <3>4. ~ \E p \in Proc : Drops(p, target[q][1])
                BY <1>1, <3>1, <3>3, DropsChangeGeneration
            <3>5. Fit(seen[q], target[q][1])'
                <4> DEFINE f == target[q][1]
                <4> DEFINE v == seen[q]
                <4>1. target' = target /\ seen' = seen
                    BY <2>1 DEF EnterGet
                <4>2. (row' = row) /\ (DropPending(f) => DropPending(f)') /\ (DeletePending(f)' => DeletePending(f))
                    <5>1. \A p \in Proc : /\ stage[p] = "committed" => stage'[p] = "committed"
                                          /\ stage'[p] = "dropped" => stage[p] = "dropped"
                        BY <2>1 DEF EnterGet, Goto, RequestType
                    <5> QED BY <2>1, <4>1, <5>1 DEF EnterGet, DropPending, DeletePending
                <4> QED BY <3>2, <4>1, <4>2 DEF Fit
            <3> QED BY <3>3, <3>5, <2>1 DEF EnterGet
        <2>2. CASE ~EnterGet(q)
            <3>1. InGet(q) /\ Still(q) /\ key'[q] = key[q] /\ ~crossed[q]
                BY <1>1, <1>2, <2>2, StaysInGet
            <3>2. ~late[q] /\ key[q] \in Key /\ key[q][1] \in Profile
                BY <1>1, <1>2, <3>1, KeyIsPair DEF Still, TypeOK
            <3>3. seen[q] # None /\ Fit(seen[q], key[q][1])
                BY <3>1, <3>2 DEF Linked, GetInv
            <3>4. ~ \E p \in Proc : Drops(p, key[q][1])
                BY <1>1, <1>2, <3>1, <3>2, DropsChangeGeneration
            <3>5. \A v, f : v = seen[q] /\ f = key[q][1] => Fit(v, f)'
                BY <1>1, <3>2, <3>3, <3>4, FitKept
            <3> QED BY <3>1, <3>5 DEF Still, Fit, DropPending, DeletePending
        <2> QED BY <2>1, <2>2
    <1>3. ASSUME pc'[q] = "opening"
          PROVE  made'[mine'[q]] = [settings |-> seen'[q], late |-> late'[q]]
        <2>1. ~EnterGet(q)
            BY <1>1, <1>3, EnterMoves DEF EnterGet, Linked
        <2>2. InGet(q)'
            BY <1>3 DEF InGet
        <2>3. Still(q)
            BY <1>1, <2>1, <2>2, StaysInGet
        <2>4. mine'[q] \in open' /\ mine'[q] \in PoolId
            BY <1>1, <1>3 DEF OwnerInv, Opening, TypeOK
        <2>5. CASE pc[q] = "opening" /\ mine'[q] = mine[q]
            <3>1. mine[q] \in open /\ made[mine[q]] = [settings |-> seen[q], late |-> late[q]]
                BY <1>1, <2>5 DEF OwnerInv, Opening, GetInv
            <3>2. made'[mine[q]] = made[mine[q]]
                BY <1>1, <2>4, <2>5, <3>1, MadeKept
            <3> QED BY <2>3, <2>5, <3>1, <3>2 DEF Still
        <2>6. CASE InManager(q) /\ ProbeOk(q)
            <3>1. mine'[q] \notin open
                BY <1>1, <2>6, FreshIsMember DEF ProbeOk, UnusedPool, TypeOK
            <3>2. made'[mine'[q]] = [settings |-> seen[q], late |-> late[q]]
                BY <2>4, <2>6, <3>1 DEF InManager, TrackPools
            <3> QED BY <2>3, <3>2 DEF Still
        <2> QED BY <1>1, <1>3, <2>1, <2>2, <2>5, <2>6, StaysInGet
    <1> QED BY <1>2, <1>3 DEF GetInv

(* What is cached was fit when it was cached, and until it is dropped    *)
LEMMA CacheStep ==
    ASSUME IInv, IInv', RequestType, \A p \in Proc : Linked(p) /\ GetInv(p), [RequestNext]_allVars,
           NEW k \in Key, CacheInv(k)
    PROVE  CacheInv(k)'
    <1>1. TypeOK /\ TypeOK' /\ OwnerInv /\ OwnerInv' /\ GenerationInv /\ k[1] \in Profile
        BY KeyIsPair DEF IInv
    <1> SUFFICES ASSUME pools'[k] # None
                 PROVE  /\ made'[pools'[k]].settings # None
                        /\ made'[pools'[k]].late \/ Fit(made[pools[k]].settings, k[1])'
        BY DEF CacheInv
    <1>2. pools'[k] \in open' /\ pools'[k] \in PoolId
        BY <1>1 DEF OwnerInv, TypeOK
    <1>3. ~ \E p \in Proc : Drops(p, k[1])
        BY <1>1, DropsChangeGeneration
    <1>4. ASSUME NEW v, v # None, Fit(v, k[1]), v = made'[pools'[k]].settings
          PROVE  Fit(made[pools[k]].settings, k[1])'
        <2>1. Fit(v, k[1])'
            BY <1>1, <1>3, <1>4, FitKept
        <2> QED BY <1>4, <2>1 DEF Fit, DropPending, DeletePending
    <1>5. CASE pools'[k] = pools[k]
        <2>1. pools[k] \in open
            BY <1>1, <1>5 DEF OwnerInv
        <2>2. made'[pools'[k]] = made[pools[k]]
            BY <1>1, <1>2, <1>5, <2>1, MadeKept
        <2> QED BY <1>4, <1>5, <2>2 DEF CacheInv
    <1>6. CASE pools'[k] # pools[k]
        <2>1. PICK p \in Proc : InManager(p) /\ Cached(p) /\ key[p] = k
            <3>1. ~ UNCHANGED vars
                BY <1>6 DEF vars
            <3>2. PICK p \in Proc : EnterGet(p) \/ InManager(p) \/ UpdateDrop(p) \/ DeleteDrop(p)
                BY <3>1 DEF RequestNext, allVars, vars, Create, Arrive, Step, LoadProfile, CommitUpdate,
                            UpdateFails, UpdateDone, DeleteCommit
            <3>3. ~EnterGet(p)
                BY <1>1, <1>6, EnterMoves DEF EnterGet, Linked
            <3>4. ~(UpdateDrop(p) \/ DeleteDrop(p))
                <4> SUFFICES ASSUME UpdateDrop(p) \/ DeleteDrop(p)
                             PROVE  FALSE
                    OBVIOUS
                <4>1. target[p][1] \in Profile /\ Drop(p, target[p][1])
                    BY KeyIsPair DEF UpdateDrop, DeleteDrop, Linked
                <4> QED BY <1>1, <1>6, <4>1, DropMoves
            <3>5. InManager(p) /\ Cached(p)
                BY <1>1, <1>6, <3>2, <3>3, <3>4, ContinueMoves DEF InManager
            <3>6. key[p] = k
                BY <1>1, <1>6, <3>5 DEF Cached, TypeOK
            <3> QED BY <3>5, <3>6
        <2>2. pc[p] = "opening" /\ InGet(p) /\ pools'[k] = mine[p] /\ open' = open
            BY <1>1, <2>1 DEF Cached, InGet, TypeOK
        <2>3. ~crossed[p]
            BY <1>1, <2>1, <2>2 DEF Cached, Stale, GenerationInv
        <2>4. made[mine[p]] = [settings |-> seen[p], late |-> late[p]] /\ seen[p] # None
            BY <2>2 DEF GetInv, Linked
        <2>5. made'[pools'[k]] = made[mine[p]]
            BY <1>1, <1>2, <2>2, MadeKept
        <2>6. ~late[p] => Fit(seen[p], k[1])
            BY <2>1, <2>2, <2>3 DEF GetInv
        <2> QED BY <1>4, <2>4, <2>5, <2>6
    <1> QED BY <1>5, <1>6

-----------------------------------------------------------------------------
(* The invariant holds at first, and every step keeps it                 *)
LEMMA InitRInv ==
    ASSUME RequestInit
    PROVE  RInv
    <1>1. RequestType
        BY DEF RequestInit, RequestType, Jobs, Stages
    <1>2. \A p \in Proc : Linked(p) /\ GetInv(p)
        BY DEF RequestInit, Init, Linked, GetInv, InGet
    <1> QED BY <1>1, <1>2 DEF RInv, CacheInv, RequestInit, Init

(* (given that of the pool manager)                                      *)
LEMMA RInvStep ==
    ASSUME IInv, IInv', RInv, [RequestNext]_allVars
    PROVE  RInv'
    <1>1. TypeOK /\ RequestType /\ (\A p \in Proc : Linked(p) /\ GetInv(p)) /\ \A k \in Key : CacheInv(k)
        BY DEF IInv, RInv
    <1>2. RequestType' /\ \A q \in Proc : Linked(q)'
        BY <1>1, RequestTypeStep, LinkedStep
    <1>3. \A q \in Proc : GetInv(q)'
        BY <1>1, GetStep
    <1>4. \A k \in Key : CacheInv(k)'
        BY <1>1, CacheStep
    <1> QED BY <1>2, <1>3, <1>4 DEF RInv

(* Both invariants hold in every state the requests reach                *)
THEOREM BothInvariant == RequestSpec => [](IInv /\ RInv)
    <1>1. RequestInit => IInv /\ RInv
        BY InitIInv, InitRInv DEF RequestInit
    <1>2. IInv /\ RInv /\ [RequestNext]_allVars => (IInv /\ RInv)'
        <2> SUFFICES ASSUME IInv, RInv, [RequestNext]_allVars
                     PROVE  (IInv /\ RInv)'
            OBVIOUS
        <2>1. [Next]_vars
            BY RequestIsPoolStep DEF RInv
        <2>2. IInv'
            BY <2>1, IInvStep
        <2> QED BY <2>2, RInvStep
    <1> QED BY <1>1, <1>2, PTL DEF RequestSpec

(* The endpoints use the manager as PoolManager says it may be used        *)
THEOREM RequestsUsePools == RequestSpec => Spec
    <1>1. RequestInit => Init
        BY DEF RequestInit
    <1>2. RInv /\ [RequestNext]_allVars => [Next]_vars
        BY RequestIsPoolStep DEF RInv
    <1> QED BY <1>1, <1>2, BothInvariant, PTL DEF RequestSpec, Spec

(* A pool of other settings than the profile's is cached only while the    *)
(* edit still owes its drop, or when its opener loaded the profile before  *)
(* the edit and called get after the drop or during a deletion             *)
(* (api/profiles.py, update_profile and delete_profile)                    *)
THEOREM OutdatedByLateGet == RequestSpec => []OutdatedOnlyByLateGet
    <1>1. RInv => OutdatedOnlyByLateGet
        BY DEF RInv, CacheInv, Fit, OutdatedOnlyByLateGet, Outdated
    <1> QED BY <1>1, BothInvariant, PTL

-----------------------------------------------------------------------------
(* What is recorded of an instance, beside its requests                    *)

Positive == Nat \ {0}
Record == [profile : Profile \cup {None}, settings : Nat, stray : BOOLEAN]

(* On PostgreSQL no id comes back, so that all settings are of the profile *)
(* there has always been                                                   *)
MInv ==
    /\ row \in [Profile -> Positive \cup {None}]
    /\ version \in Positive
    /\ seen \in [Proc -> Positive \cup {None}]
    /\ born \in [Profile -> Nat]
    /\ setup.postgres => \A f \in Profile : born[f] = 1
    /\ visit \in [Sampler -> (Profile \X Positive) \cup {None}]
    /\ tick.todo \subseteq Profile \X Positive
    /\ tick.pc = "sampling" => visit["task"] # None
    /\ samples \subseteq Record
    /\ audit \subseteq Record
    /\ RecordsAreOfProfile

LEMMA MetricsAreBesideRequests ==
    ASSUME setup \in Setup, [MetricsNext]_metricsVars
    PROVE  [RequestNext]_allVars
    <1>1. Profile \X setup.databases \subseteq Key
        BY SetupIsTyped DEF Key
    <1>2. CASE \/ UNCHANGED metricsVars
               \/ Wake \/ Skip \/ Store \/ Prune \/ SampledNow \/ \E f \in Profile : SampleNow(f)
        BY <1>2 DEF metricsVars, Wake, Skip, Store, Prune, SampleNow, SampledNow
    <1>3. CASE \E f \in Profile : Created(f)
        BY <1>3 DEF Created, RequestNext
    <1>4. CASE \E p \in Proc : MetricsArrive(p)
        BY <1>1, <1>4 DEF MetricsArrive, RequestNext
    <1>5. CASE \E p \in Proc : Audited(p) \/ Deleted(p) \/ OtherStep(p)
        BY <1>5 DEF Audited, Deleted, OtherStep, RequestNext, Step
    <1> QED BY <1>2, <1>3, <1>4, <1>5 DEF MetricsNext

(* The circumstances do not change                                         *)
LEMMA SetupStays ==
    ASSUME setup \in Setup, [MetricsNext]_metricsVars
    PROVE  (setup \in Setup)'
    BY DEF MetricsNext, metricsVars, Wake, Skip, Store, Prune, SampleNow, SampledNow, MetricsArrive, Audited,
           Deleted, OtherStep, Created

(* A row is of its profile                                                 *)
OfProfile(x) ==
    x.profile # None =>
        \/ row[x.profile] # None /\ x.settings >= born[x.profile]
        \/ x.stray /\ ~setup.postgres

(* What is inserted is, and stays, of the profile it was loaded from       *)
LEMMA InsertedIsOfProfile ==
    ASSUME MInv, NEW t, t \subseteq samples \cup audit, NEW f \in Profile, NEW s \in Positive,
           NEW u \in Inserted(t, f, s)
    PROVE  /\ t \subseteq Record => u \subseteq Record
           /\ \A x \in u : OfProfile(x)
    <1>1. ASSUME ~Refused(f)
          PROVE  Entry(f, s) \in Record /\ OfProfile(Entry(f, s))
        <2> DEFINE x == Entry(f, s)
        <2>1. x.profile = f /\ x.settings = s /\ x.stray = (row[f] = None \/ s < born[f])
            BY DEF Entry
        <2>2. s \in Nat /\ s >= 1 /\ born[f] \in Nat
            BY DEF MInv, Positive
        <2>3. x \in Record
            BY <2>2 DEF Entry, Record
        <2>4. CASE row[f] # None /\ s >= born[f]
            BY <2>1, <2>3, <2>4 DEF OfProfile
        <2>5. CASE ~(row[f] # None /\ s >= born[f])
            <3>1. row[f] = None \/ s < born[f]
                BY <2>2, <2>5
            <3>2. ~setup.postgres
                BY <1>1, <2>2, <3>1 DEF Refused, MInv
            <3>3. x.stray
                BY <2>1, <3>1
            <3> QED BY <2>3, <3>2, <3>3 DEF OfProfile
        <2> QED BY <2>4, <2>5
    <1>2. \A x \in t : OfProfile(x)
        BY DEF MInv, RecordsAreOfProfile, OfProfile
    <1> QED BY <1>1, <1>2 DEF Inserted

(* Rows stay of their profile while it exists and is not created anew      *)
LEMMA RecordsKept ==
    ASSUME RecordsAreOfProfile, samples' \cup audit' \subseteq samples \cup audit,
           samples \cup audit \subseteq Record,
           setup' = setup, born' = born,
           \A f \in Profile : row[f] # None => row'[f] # None
    PROVE  RecordsAreOfProfile'
    BY DEF RecordsAreOfProfile, Record

(* The sampler turns to a profile it has loaded                            *)
LEMMA VisitType ==
    ASSUME MInv, NEW todo \in SUBSET (Profile \X Positive), Visit(todo)
    PROVE  /\ visit' \in [Sampler -> (Profile \X Positive) \cup {None}]
           /\ tick'.todo \subseteq Profile \X Positive
           /\ tick'.pc = "sampling" => visit'["task"] # None
    <1>1. "task" \in Sampler
        BY DEF Sampler
    <1>2. CASE todo = {}
        BY <1>1, <1>2 DEF Visit, MInv
    <1>3. ASSUME NEW x \in todo, tick' = [pc |-> "sampling", todo |-> todo \ {x}],
                 visit' = [visit EXCEPT !["task"] = x]
          PROVE  /\ visit' \in [Sampler -> (Profile \X Positive) \cup {None}]
                 /\ tick'.todo \subseteq Profile \X Positive
                 /\ tick'.pc = "sampling" => visit'["task"] # None
        <2>1. x # None
            BY NoneIsNoVersion DEF Positive
        <2> QED BY <1>1, <1>3, <2>1 DEF MInv
    <1> QED BY <1>2, <1>3 DEF Visit

(* The rows the sampler and sample_now write are of their profile          *)
LEMMA SamplerStep ==
    ASSUME MInv, Wake \/ Skip \/ Store \/ Prune \/ SampledNow \/ \E f \in Profile : SampleNow(f)
    PROVE  MInv'
    <1>1. /\ row' = row /\ version' = version /\ seen' = seen /\ born' = born /\ setup' = setup
          /\ audit' = audit
        BY DEF Wake, Skip, Store, Prune, SampledNow, SampleNow, allVars, requests
    <1>2. ASSUME samples' \subseteq samples
          PROVE  samples' \subseteq Record /\ RecordsAreOfProfile'
        BY <1>1, <1>2, RecordsKept DEF MInv
    <1>3. ASSUME NEW v \in Profile \X Positive, samples' \in Inserted(samples, v[1], v[2])
          PROVE  samples' \subseteq Record /\ RecordsAreOfProfile'
        <2>1. v[1] \in Profile /\ v[2] \in Positive
            OBVIOUS
        <2>2. samples' \subseteq Record /\ \A x \in samples' : OfProfile(x)
            BY <1>3, <2>1, InsertedIsOfProfile DEF MInv
        <2>3. \A x \in audit : OfProfile(x)
            BY DEF MInv, RecordsAreOfProfile, OfProfile
        <2> QED BY <1>1, <2>2, <2>3 DEF RecordsAreOfProfile, OfProfile
    <1>4. "task" \in Sampler /\ "request" \in Sampler
        BY DEF Sampler
    <1>5. CASE Wake
        <2> DEFINE todo == {<<f, row[f]>> : f \in {g \in Profile : row[g] # None}}
        <2>1. todo \in SUBSET (Profile \X Positive)
            BY DEF MInv
        <2>2. Visit(todo) /\ samples' = samples
            BY <1>5 DEF Wake
        <2> HIDE DEF todo
        <2> QED BY <1>1, <1>2, <2>1, <2>2, VisitType DEF MInv
    <1>6. CASE Skip
        <2>1. Visit(tick.todo) /\ samples' = samples /\ tick.todo \in SUBSET (Profile \X Positive)
            BY <1>6 DEF Skip, MInv
        <2> QED BY <1>1, <1>2, <2>1, VisitType DEF MInv
    <1>7. CASE Store
        <2>1. /\ Visit(tick.todo) /\ tick.todo \in SUBSET (Profile \X Positive)
              /\ visit["task"] \in Profile \X Positive
            BY <1>4, <1>7 DEF Store, MInv
        <2>2. samples' \subseteq Record /\ RecordsAreOfProfile'
            BY <1>3, <1>7, <2>1 DEF Store
        <2> QED BY <1>1, <2>1, <2>2, VisitType DEF MInv
    <1>8. CASE Prune
        <2>1. samples' \subseteq samples /\ tick' = Sleeping /\ visit' = visit
            BY <1>8 DEF Prune
        <2> QED BY <1>1, <1>2, <2>1 DEF MInv, Sleeping
    <1>9. CASE SampledNow
        <2>1. visit["request"] \in Profile \X Positive
            BY <1>4, <1>9 DEF SampledNow, MInv
        <2>2. samples' \subseteq Record /\ RecordsAreOfProfile'
            BY <1>3, <1>9, <2>1 DEF SampledNow
        <2>3. visit' = [visit EXCEPT !["request"] = None] /\ tick' = tick
            BY <1>9 DEF SampledNow
        <2> QED BY <1>1, <1>4, <2>2, <2>3 DEF MInv
    <1>10. ASSUME NEW f \in Profile, SampleNow(f)
           PROVE  MInv'
        <2>1. <<f, row[f]>> \in Profile \X Positive
            BY <1>10 DEF SampleNow, MInv
        <2>2. visit' = [visit EXCEPT !["request"] = <<f, row[f]>>] /\ tick' = tick /\ samples' = samples
            BY <1>10 DEF SampleNow
        <2>3. samples' \subseteq Record /\ RecordsAreOfProfile'
            BY <1>2, <2>2
        <2> QED BY <1>1, <1>4, <2>1, <2>2, <2>3 DEF MInv
    <1> QED BY <1>5, <1>6, <1>7, <1>8, <1>9, <1>10

(* The audit row of an apply is of the profile the request loaded          *)
LEMMA AuditedStep ==
    ASSUME MInv, RInv, NEW p \in Proc, Audited(p)
    PROVE  MInv'
    <1>1. stage[p] = "inget" /\ target[p] \in Key /\ seen[p] # None
        BY DEF RInv, RequestType, Stages, Linked, Audited
    <1>2. target[p][1] \in Profile /\ seen[p] \in Positive
        BY <1>1, KeyIsPair DEF MInv
    <1>3. row' = row /\ version' = version /\ audit' \in Inserted(audit, target[p][1], seen[p])
          /\ setup' = setup /\ born' = born /\ samples' = samples /\ tick' = tick /\ visit' = visit
        BY DEF Audited, InManager
    <1>4. seen' \in [Proc -> Positive \cup {None}]
        BY DEF Audited, InManager, EndRequest, requests, MInv
    <1>5. audit' \subseteq Record /\ \A x \in audit' : OfProfile(x)
        BY <1>2, <1>3, InsertedIsOfProfile DEF MInv
    <1>6. \A x \in samples : OfProfile(x)
        BY DEF MInv, RecordsAreOfProfile, OfProfile
    <1>7. RecordsAreOfProfile'
        BY <1>3, <1>5, <1>6 DEF RecordsAreOfProfile, OfProfile
    <1> QED BY <1>3, <1>4, <1>5, <1>7 DEF MInv

(* A deletion leaves nothing under its profile                             *)
LEMMA DeletedStep ==
    ASSUME MInv, RInv, NEW p \in Proc, Deleted(p)
    PROVE  MInv'
    <1> DEFINE f == target[p][1]
    <1>1. f \in Profile
        BY KeyIsPair DEF RInv, Linked, Deleted, DeleteCommit
    <1>2. /\ row' = [row EXCEPT ![f] = None] /\ version' = version
          /\ setup' = setup /\ born' = born /\ tick' = tick /\ visit' = visit
          /\ samples' = {x \in samples : x.profile # f}
          /\ audit' = {IF x.profile = f THEN [x EXCEPT !.profile = None] ELSE x : x \in audit}
        BY DEF Deleted, DeleteCommit
    <1>3. seen' \in [Proc -> Positive \cup {None}]
        BY DEF Deleted, DeleteCommit, EndRequest, MInv
    <1>4. row' \in [Profile -> Positive \cup {None}]
        BY <1>1, <1>2 DEF MInv
    <1> HIDE DEF f
    <1>5. \A x \in samples' : x \in samples /\ x.profile # f
        BY <1>2
    <1>6. \A x \in audit' : x \in Record /\ (x.profile = None \/ (x \in audit /\ x.profile # f))
        BY <1>1, <1>2 DEF MInv, Record
    <1>7. \A x \in samples' \cup audit' : x.profile # None => x \in samples \cup audit /\ x \in Record /\ x.profile # f
        BY <1>5, <1>6 DEF MInv
    <1>8. \A g \in Profile : g # f => row'[g] = row[g]
        BY <1>1, <1>2 DEF MInv
    <1>9. RecordsAreOfProfile'
        BY <1>2, <1>7, <1>8 DEF RecordsAreOfProfile, MInv, Record
    <1> QED BY <1>2, <1>3, <1>4, <1>5, <1>6, <1>9 DEF MInv

(* and on SQLite the next profile of that id finds only strays             *)
LEMMA CreatedStep ==
    ASSUME MInv, NEW f \in Profile, Created(f)
    PROVE  MInv'
    <1>1. /\ ~setup.postgres /\ row[f] = None
          /\ version' = version + 1 /\ row' = [row EXCEPT ![f] = version + 1]
          /\ born' = [born EXCEPT ![f] = row'[f]]
          /\ setup' = setup /\ seen' = seen /\ samples' = samples /\ audit' = audit /\ tick' = tick
          /\ visit' = visit
        BY DEF Created, Create, requests, metrics
    <1>2. version + 1 \in Positive
        BY DEF MInv, Positive
    <1>3. row' \in [Profile -> Positive \cup {None}] /\ born' \in [Profile -> Nat]
        BY <1>1, <1>2 DEF MInv, Positive
    <1>4. \A g \in Profile : g # f => row'[g] = row[g] /\ born'[g] = born[g]
        BY <1>1 DEF MInv
    <1>5. RecordsAreOfProfile'
        BY <1>1, <1>4 DEF RecordsAreOfProfile, MInv, Record
    <1> QED BY <1>1, <1>2, <1>3, <1>5 DEF MInv

(* The other steps of requests keep the profile                            *)
LEMMA OtherStepKeeps ==
    ASSUME MInv, RInv, NEW p \in Proc, OtherStep(p) \/ MetricsArrive(p)
    PROVE  MInv'
    <1>1. setup' = setup /\ born' = born /\ samples' = samples /\ audit' = audit /\ tick' = tick /\ visit' = visit
        BY DEF OtherStep, MetricsArrive, metrics
    <1>2. stage[p] # "none" => target[p][1] \in Profile
        BY KeyIsPair DEF RInv, Linked
    <1>3. version + 1 \in Positive /\ version + 1 # None
        BY NoneIsNoVersion DEF MInv, Positive
    <1>4. /\ row' \in [Profile -> Positive \cup {None}] /\ version' \in Positive
          /\ \A f \in Profile : row[f] # None => row'[f] # None
        <2>1. CASE CommitUpdate(p)
            BY <1>2, <1>3, <2>1 DEF CommitUpdate, MInv
        <2>2. CASE ~CommitUpdate(p)
            <3>1. row' = row /\ version' = version
                BY <2>2 DEF OtherStep, MetricsArrive, Arrive, LoadProfile, EnterGet, InManager, UpdateFails,
                            UpdateDrop, UpdateDone, DeleteDrop
            <3> QED BY <3>1 DEF MInv
        <2> QED BY <2>1, <2>2
    <1>5. seen' \in [Proc -> Positive \cup {None}]
        <2>1. EndRequest(p) => seen' \in [Proc -> Positive \cup {None}]
            BY DEF EndRequest, MInv
        <2>2. CASE LoadProfile(p)
            <3>1. RowOf(p) \in Positive \cup {None}
                BY <1>2, <2>2 DEF LoadProfile, RowOf, MInv
            <3> QED BY <2>1, <2>2, <3>1 DEF LoadProfile, MInv
        <2>3. CASE ~LoadProfile(p)
            <3>1. seen' = seen \/ EndRequest(p)
                BY <2>3 DEF OtherStep, MetricsArrive, Arrive, EnterGet, InManager, CommitUpdate, UpdateFails,
                            UpdateDrop, UpdateDone, DeleteDrop, requests
            <3> QED BY <2>1, <3>1 DEF MInv
        <2> QED BY <2>2, <2>3
    <1>6. RecordsAreOfProfile'
        BY <1>1, <1>4, RecordsKept DEF MInv
    <1> QED BY <1>1, <1>4, <1>5, <1>6 DEF MInv

(* The sampler and the audit are beside the requests: what is proved of    *)
(* these, and of the pool manager, holds with them                         *)
THEOREM MetricsLeaveRequests == MetricsSpec => RequestSpec
    <1>1. MetricsInit => RequestInit /\ setup \in Setup
        BY DEF MetricsInit
    <1>2. setup \in Setup /\ [MetricsNext]_metricsVars => [RequestNext]_allVars
        BY MetricsAreBesideRequests
    <1>3. setup \in Setup /\ [MetricsNext]_metricsVars => (setup \in Setup)'
        BY SetupStays
    <1> QED BY <1>1, <1>2, <1>3, PTL DEF MetricsSpec, RequestSpec

(* What the metadata database keeps of an instance is of that instance and *)
(* not of a deleted one with its id, except, on SQLite, what was under way *)
(* when it was deleted (delete_profile, sample_all, sample_now, apply)     *)
THEOREM RecordsFollowProfile == MetricsSpec => []RecordsAreOfProfile
    <1>1. MetricsInit => MInv
        <2> SUFFICES ASSUME MetricsInit
                     PROVE  MInv
            OBVIOUS
        <2>1. row = [f \in Profile |-> 1] /\ version = 1 /\ seen = [p \in Proc |-> None] /\ born = row
            BY DEF MetricsInit, RequestInit
        <2> QED BY <2>1 DEF MetricsInit, Sleeping, MInv, Positive, RecordsAreOfProfile
    <1>2. MInv /\ RInv /\ [MetricsNext]_metricsVars => MInv'
        <2> SUFFICES ASSUME MInv, RInv, [MetricsNext]_metricsVars
                     PROVE  MInv'
            OBVIOUS
        <2>1. CASE UNCHANGED metricsVars
            BY <2>1 DEF metricsVars, metrics, allVars, requests, MInv, RecordsAreOfProfile
        <2>2. CASE Wake \/ Skip \/ Store \/ Prune \/ SampledNow \/ \E f \in Profile : SampleNow(f)
            BY <2>2, SamplerStep
        <2>3. CASE \E f \in Profile : Created(f)
            BY <2>3, CreatedStep
        <2>4. CASE \E p \in Proc : MetricsArrive(p) \/ Audited(p) \/ Deleted(p) \/ OtherStep(p)
            BY <2>4, AuditedStep, DeletedStep, OtherStepKeeps
        <2> QED BY <2>1, <2>2, <2>3, <2>4 DEF MetricsNext
    <1>3. MInv => RecordsAreOfProfile
        BY DEF MInv
    <1>4. MetricsSpec => []RInv
        BY MetricsLeaveRequests, BothInvariant, PTL
    <1> QED BY <1>1, <1>2, <1>3, <1>4, PTL DEF MetricsSpec
=============================================================================
