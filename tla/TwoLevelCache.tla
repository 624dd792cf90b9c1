---------------------------- MODULE TwoLevelCache ----------------------------
(***************************************************************************)
(* The storage behind core.Service: a MemoryCache (L1) in the process and  *)
(* a Redis server (L2), put together by cache.MultiLevel.                  *)
(*                                                                         *)
(* A payload is abstracted to the time its CachedAt field holds: nothing   *)
(* else of it matters to the code that reads it back.  The module offers   *)
(* the single accesses MultiLevel.Get and MultiLevel.Set are sequences of; *)
(* the goroutine that executes a sequence holds no lock across it, so each *)
(* access is a step of its own in FineService.                             *)
(***************************************************************************)
EXTENDS Naturals

CONSTANTS
  Keys,      \* cache keys "fines:plate:document:source"
  HardTTL,   \* life of an entry in Redis
  L1TTL,     \* cap on the life of an entry in memory (20s in the code)
  None,    \* "there is none": no entry, no key, no call, no value
  MaxTime    \* bound: the clock stops here

ASSUME CacheAssumption ==
  /\ HardTTL \in Nat
  /\ L1TTL \in Nat
  /\ MaxTime \in Nat
  /\ None \notin [at : Nat, exp : Nat]

VARIABLES
  now,  \* time.Now()
  l1,   \* MemoryCache.items
  l2    \* what the Redis server holds

cacheVars == <<now, l1, l2>>

Entry == [at : Nat, exp : Nat]

CacheTypeOK ==
  /\ now \in Nat
  /\ l1 \in [Keys -> Entry \cup {None}]
  /\ l2 \in [Keys -> Entry \cup {None}]

CacheInit ==
  /\ now = 0
  /\ l1 = [k \in Keys |-> None]
  /\ l2 = [k \in Keys |-> None]

(* time.Now().After(entry.expiresAt): an entry is still good at its very
   expiry time, and stays in the map until somebody reads it.             *)
L1Absent(k)  == l1[k] = None
L1Expired(k) == l1[k] # None /\ now > l1[k].exp
L1Live(k)    == l1[k] # None /\ now <= l1[k].exp

(* MemoryCache.Get's clean-up takes the write lock after having let go of
   the read lock: it deletes whatever is under the key by then.           *)
L1Delete(k) == l1' = [l1 EXCEPT ![k] = None]

L1Put(k, at, ttl) == l1' = [l1 EXCEPT ![k] = [at |-> at, exp |-> now + ttl]]

minDuration(a, b) == IF a < b THEN a ELSE b

(* GET and SETEX on the server, which drops an entry when its time is up. *)
L2Live(k) == l2[k] # None /\ now < l2[k].exp

L2Put(k, at, ttl) == l2' = [l2 EXCEPT ![k] = [at |-> at, exp |-> now + ttl]]

Tick ==
  /\ now < MaxTime
  /\ now' = now + 1
  /\ UNCHANGED <<l1, l2>>
=============================================================================
