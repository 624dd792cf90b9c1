----------------------------- MODULE FineService -----------------------------
(***************************************************************************)
(* core.Service: SearchFines, the background refreshCache it starts for a  *)
(* stale entry, and doSingleFlight, over the two-level cache.  A goroutine *)
(* is a process with a program counter; every mutex-protected section,     *)
(* every cache access and every provider call is a step of its own.        *)
(*                                                                         *)
(* A fines result is abstracted to the time it was stamped with            *)
(* (cachedFineResult.CachedAt); an error of any kind is Failed.  The       *)
(* request context is not a variable: a context that is cancelled or times *)
(* out makes the provider call or the Redis access return an error, and    *)
(* both may do so at any time here.                                        *)
(***************************************************************************)
EXTENDS TwoLevelCache

CONSTANTS
  UncachedKeys,  \* keys whose source is "pba"
  Callers,       \* goroutines that call SearchFines
  Refreshers,    \* goroutines started by "go s.refreshCache"; a bound
  Calls,         \* inflightCall objects; those nobody refers to are reused
  SoftTTL,       \* age from which a hit starts a refresh
  Failed         \* the error result

ASSUME FineServiceAssumption ==
  /\ UncachedKeys \subseteq Keys
  /\ Callers \cap Refreshers = {}
  /\ SoftTTL \in Nat
  /\ None \notin Keys /\ None \notin Calls
  /\ None \notin Nat /\ Failed \notin Nat /\ None # Failed

VARIABLES
  inflight,  \* Service.inflight
  call,      \* inflightCall.res/err, None until done is closed
  pc,        \* where each goroutine is
  key,       \* cacheKey of each goroutine
  ref,       \* the inflightCall each goroutine holds a pointer to
  buf        \* the payload or result each goroutine holds

procVars == <<inflight, call, pc, key, ref, buf>>
vars == <<now, l1, l2, inflight, call, pc, key, ref, buf>>

Procs == Callers \cup Refreshers
Results == Nat \cup {Failed}

(* A goroutine that has registered a call runs fn and then takes the call
   out of the map again.                                                  *)
Computing == {"fetch", "set1", "set2", "close"}
Leading == Computing \cup {"delete"}
Labels == {"idle", "l1get", "l1del", "l2get", "fill", "check", "enter", "wait"}
            \cup Leading

TypeOK ==
  /\ CacheTypeOK
  /\ inflight \in [Keys -> Calls \cup {None}]
  /\ call \in [Calls -> Results \cup {None}]
  /\ pc \in [Procs -> Labels]
  /\ key \in [Procs -> Keys \cup {None}]
  /\ ref \in [Procs -> Calls \cup {None}]
  /\ buf \in [Procs -> Results \cup {None}]

Init ==
  /\ CacheInit
  /\ inflight = [k \in Keys |-> None]
  /\ call = [c \in Calls |-> None]
  /\ pc = [p \in Procs |-> "idle"]
  /\ key = [p \in Procs |-> None]
  /\ ref = [p \in Procs |-> None]
  /\ buf = [p \in Procs |-> None]

Goto(p, label) == pc' = [pc EXCEPT ![p] = label]

(* The goroutine returns to its caller, its locals are garbage. *)
Leave(p) ==
  /\ Goto(p, "idle")
  /\ key' = [key EXCEPT ![p] = None]
  /\ ref' = [ref EXCEPT ![p] = None]
  /\ buf' = [buf EXCEPT ![p] = None]

(* The source decides whether the cache is consulted and filled. *)
shouldUseCache(k) == k \notin UncachedKeys

-----------------------------------------------------------------------------
(* SearchFines up to the first access.  A query that fails validation
   returns before it touches anything and is no action.                   *)
SearchFines(p, k) ==
  /\ pc[p] = "idle"
  /\ key' = [key EXCEPT ![p] = k]
  /\ Goto(p, IF shouldUseCache(k) THEN "l1get" ELSE "enter")
  /\ UNCHANGED <<now, l1, l2, inflight, call, ref, buf>>

(* MultiLevel.Get: memory, then Redis, then back-fill of the memory. *)
L1Get(p) ==
  /\ pc[p] = "l1get"
  /\ \/ L1Absent(key[p]) /\ Goto(p, "l2get") /\ UNCHANGED buf
     \/ L1Expired(key[p]) /\ Goto(p, "l1del") /\ UNCHANGED buf
     \/ L1Live(key[p]) /\ Goto(p, "check") /\ buf' = [buf EXCEPT ![p] = l1[key[p]].at]
  /\ UNCHANGED <<now, l1, l2, inflight, call, key, ref>>

L1GetDelete(p) ==
  /\ pc[p] = "l1del"
  /\ L1Delete(key[p])
  /\ Goto(p, "l2get")
  /\ UNCHANGED <<now, l2, inflight, call, key, ref, buf>>

(* A Redis error and a miss both lead to the fetch. *)
L2Get(p) ==
  /\ pc[p] = "l2get"
  /\ \/ Goto(p, "enter") /\ UNCHANGED buf
     \/ L2Live(key[p]) /\ Goto(p, "fill") /\ buf' = [buf EXCEPT ![p] = l2[key[p]].at]
  /\ UNCHANGED <<now, l1, l2, inflight, call, key, ref>>

Backfill(p) ==
  /\ pc[p] = "fill"
  /\ L1Put(key[p], buf[p], L1TTL)
  /\ Goto(p, "check")
  /\ UNCHANGED <<now, l2, inflight, call, key, ref, buf>>

age(p) == now - buf[p]

AnswerFresh(p) ==
  /\ pc[p] = "check"
  /\ age(p) <= SoftTTL /\ age(p) <= HardTTL
  /\ Leave(p)
  /\ UNCHANGED <<now, l1, l2, inflight, call>>

(* Slip: the refresh goes by way of SearchFines, and so by way of the cache. *)
AnswerStaleByCache(p, r) ==
  /\ pc[p] = "check"
  /\ age(p) > SoftTTL /\ age(p) <= HardTTL
  /\ pc[r] = "idle"
  /\ pc' = [pc EXCEPT ![p] = "idle", ![r] = "l1get"]
  /\ key' = [key EXCEPT ![p] = None, ![r] = key[p]]
  /\ buf' = [buf EXCEPT ![p] = None]
  /\ UNCHANGED <<now, l1, l2, inflight, call, ref>>

(* The cached value is returned and a refresh is left behind. *)
AnswerStale(p, r) ==
  /\ pc[p] = "check"
  /\ age(p) > SoftTTL /\ age(p) <= HardTTL
  /\ pc[r] = "idle"
  /\ pc' = [pc EXCEPT ![p] = "idle", ![r] = "enter"]
  /\ key' = [key EXCEPT ![p] = None, ![r] = key[p]]
  /\ buf' = [buf EXCEPT ![p] = None]
  /\ UNCHANGED <<now, l1, l2, inflight, call, ref>>

RejectExpired(p) ==
  /\ pc[p] = "check"
  /\ age(p) > HardTTL
  /\ Goto(p, "enter")
  /\ buf' = [buf EXCEPT ![p] = None]
  /\ UNCHANGED <<now, l1, l2, inflight, call, key, ref>>

-----------------------------------------------------------------------------
(* doSingleFlight: the section under the mutex either finds a call or
   allocates and registers one.  An object is free when neither the map
   nor a goroutine points to it.                                          *)
FreeCalls == {c \in Calls : (\A k \in Keys : inflight[k] # c)
                              /\ (\A q \in Procs : ref[q] # c)}

JoinFlight(p) ==
  /\ pc[p] = "enter"
  /\ inflight[key[p]] # None
  /\ ref' = [ref EXCEPT ![p] = inflight[key[p]]]
  /\ Goto(p, "wait")
  /\ UNCHANGED <<now, l1, l2, inflight, call, key, buf>>

(* Slip: the map was read in an earlier critical section. *)
StartFlightUnchecked(p, c) ==
  /\ pc[p] = "enter"
  /\ c \in FreeCalls
  /\ call' = [call EXCEPT ![c] = None]
  /\ inflight' = [inflight EXCEPT ![key[p]] = c]
  /\ ref' = [ref EXCEPT ![p] = c]
  /\ Goto(p, "fetch")
  /\ UNCHANGED <<now, l1, l2, key, buf>>

StartFlight(p, c) ==
  /\ pc[p] = "enter"
  /\ inflight[key[p]] = None
  /\ c \in FreeCalls
  /\ call' = [call EXCEPT ![c] = None]
  /\ inflight' = [inflight EXCEPT ![key[p]] = c]
  /\ ref' = [ref EXCEPT ![p] = c]
  /\ Goto(p, "fetch")
  /\ UNCHANGED <<now, l1, l2, key, buf>>

(* fn: the provider call, then, if it succeeded, the two cache writes. *)
FetchOK(p) ==
  /\ pc[p] = "fetch"
  /\ buf' = [buf EXCEPT ![p] = now]
  /\ Goto(p, IF shouldUseCache(key[p]) THEN "set1" ELSE "close")
  /\ UNCHANGED <<now, l1, l2, inflight, call, key, ref>>

(* Slip: an error returns before done is closed. *)
FetchFailedUnclosed(p) ==
  /\ pc[p] = "fetch"
  /\ buf' = [buf EXCEPT ![p] = Failed]
  /\ Goto(p, "delete")
  /\ UNCHANGED <<now, l1, l2, inflight, call, key, ref>>

FetchFailed(p) ==
  /\ pc[p] = "fetch"
  /\ buf' = [buf EXCEPT ![p] = Failed]
  /\ Goto(p, "close")
  /\ UNCHANGED <<now, l1, l2, inflight, call, key, ref>>

SetL1(p) ==
  /\ pc[p] = "set1"
  /\ L1Put(key[p], buf[p], minDuration(HardTTL, L1TTL))
  /\ Goto(p, "set2")
  /\ UNCHANGED <<now, l2, inflight, call, key, ref, buf>>

(* The error of a failed SETEX is dropped. *)
SetL2(p) ==
  /\ pc[p] = "set2"
  /\ L2Put(key[p], buf[p], HardTTL) \/ UNCHANGED l2
  /\ Goto(p, "close")
  /\ UNCHANGED <<now, l1, inflight, call, key, ref, buf>>

(* call.res, call.err = fn(); close(call.done) *)
CloseFlight(p) ==
  /\ pc[p] = "close"
  /\ call' = [call EXCEPT ![ref[p]] = buf[p]]
  /\ Goto(p, "delete")
  /\ UNCHANGED <<now, l1, l2, inflight, key, ref, buf>>

DeleteFlight(p) ==
  /\ pc[p] = "delete"
  /\ inflight' = [inflight EXCEPT ![key[p]] = None]
  /\ Leave(p)
  /\ UNCHANGED <<now, l1, l2, call>>

(* Slip: the result is read without waiting for done. *)
FollowerDoesNotWait(p) ==
  /\ pc[p] = "wait"
  /\ Leave(p)
  /\ UNCHANGED <<now, l1, l2, inflight, call>>

(* <-existing.done *)
FollowerReturns(p) ==
  /\ pc[p] = "wait"
  /\ call[ref[p]] # None
  /\ Leave(p)
  /\ UNCHANGED <<now, l1, l2, inflight, call>>

-----------------------------------------------------------------------------
Step(p) ==
  \/ L1Get(p) \/ L1GetDelete(p) \/ L2Get(p) \/ Backfill(p)
  \/ AnswerFresh(p) \/ RejectExpired(p)
  \/ \E r \in Refreshers : AnswerStale(p, r)
  \/ JoinFlight(p)
  \/ \E c \in Calls : StartFlight(p, c)
  \/ FetchOK(p) \/ FetchFailed(p) \/ SetL1(p) \/ SetL2(p)
  \/ CloseFlight(p) \/ DeleteFlight(p) \/ FollowerReturns(p)

Next ==
  \/ \E p \in Callers, k \in Keys : SearchFines(p, k)
  \/ \E p \in Procs : Step(p)
  \/ Tick /\ UNCHANGED procVars

Spec == Init /\ [][Next]_vars

(* Nobody has to call SearchFines, and time is free; a goroutine that can
   go on does, and a provider call ends because ProviderRouter bounds it.
   "go" never waits, so a goroutine that is to start a refresh must not be
   kept from it for ever by others that use up the bound Refreshers.      *)
FairSpec ==
  /\ Spec
  /\ \A p \in Procs : WF_vars(Step(p))
  /\ \A p \in Callers : SF_vars(\E r \in Refreshers : AnswerStale(p, r))

-----------------------------------------------------------------------------
(* The deduplication: no two goroutines are computing the same key. *)
OneFetchPerKey ==
  \A p, q \in Procs :
    pc[p] \in Computing /\ pc[q] \in Computing /\ key[p] = key[q] => p = q

(* Whoever waits for a call that is not done waits for one somebody is still
   computing, for the very key asked for: no follower is left on a call
   object that the map has lost.                                          *)
NoOrphanFollower ==
  \A p \in Procs :
    pc[p] = "wait" /\ call[ref[p]] = None =>
      \E q \in Procs : pc[q] \in Computing /\ ref[q] = ref[p] /\ key[q] = key[p]

(* Results of the captcha-driven source "pba" are never kept, in memory or in
   Redis: the key leaves out the caller's captcha token.                  *)
PBANeverCached == \A k \in UncachedKeys : l1[k] = None /\ l2[k] = None

(* Redis never goes back to an older result of a key, although goroutines of
   different ages write it without a lock: the flights of a key are one
   after the other, cache writes included.                                *)
L2NeverRegresses ==
  [][\A k \in Keys : l2[k] # None => l2'[k] # None /\ l2'[k].at >= l2[k].at]_vars

(* A stale entry is served for the time being: whoever finds one older than
   softTTL, be it still good for an answer or past hardTTL, which the back-fill
   lets it reach in memory, leaves the providers asked for its key: a flight
   comes by its answer, or its error, once the entry has been read, or has
   done so already and is not over (it may be the one that brought it).   *)
readStale(k) ==
  \E p \in Procs : pc[p] = "check" /\ key[p] = k /\ age(p) > SoftTTL
hasAsked(k) ==
  \E q \in Procs : pc[q] \in {"set1", "set2", "close", "delete"} /\ key[q] = k

StaleIsRevalidated == \A k \in Keys : readStale(k) ~> hasAsked(k)

(* Every SearchFines call and every background refresh comes to an end. *)
EveryCallReturns == \A p \in Procs : pc[p] # "idle" ~> pc[p] = "idle"

(* doSingleFlight is the abstract one: a goroutine takes part from "enter" on,
   a computation runs while its call is not done, and the call that is done
   but still in the map is the result late comers get.                    *)
openFlights == {k \in Keys : inflight[k] # None /\ call[inflight[k]] = None}
doneFlights == [k \in Keys |-> IF inflight[k] = None THEN None ELSE call[inflight[k]]]
wanted == [p \in Procs |-> IF ref[p] = None THEN None ELSE key[p]]
obtained == [p \in Procs |-> IF ref[p] = None THEN None ELSE call[ref[p]]]

Flight == INSTANCE SingleFlight WITH
  Results <- (0 .. MaxTime) \cup {Failed},
  running <- openFlights, last <- doneFlights, wants <- wanted, got <- obtained

ImplementsSingleFlight == Flight!FlightSpec
=============================================================================
