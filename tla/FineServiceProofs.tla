-------------------------- MODULE FineServiceProofs --------------------------
(***************************************************************************)
(* Proofs that FineService is correct for any number of keys, callers,     *)
(* refreshers and call objects and for any times to live.                  *)
(*                                                                         *)
(* The inductive invariant says who owns what.  A goroutine that has       *)
(* registered a call owns the key's entry of the map until it deletes it,  *)
(* the call is open exactly while it computes, and a follower's open call  *)
(* is the one the map holds.  On top of that come the times: what Redis    *)
(* and the goroutines hold is not from the future, and what the owner of a *)
(* key is about to write is not older than what Redis has.                 *)
(*                                                                         *)
(* At the end: a goroutine has only so many steps of its own.              *)
(***************************************************************************)
EXTENDS FineService, TLAPS

Joined == Leading \cup {"wait"}
Cached == {"l1get", "l1del", "l2get", "fill", "check", "set1", "set2"}
Dated == {"fill", "check", "set1", "set2"}

(* A goroutine works on a key, refers to a call from doSingleFlight's critical
   section on, and has a dated result in hand where it uses one.          *)
Working(p) ==
  /\ pc[p] # "idle" => key[p] \in Keys
  /\ pc[p] \in Joined => ref[p] \in Calls
  /\ pc[p] \in Dated => buf[p] \in Nat
  /\ pc[p] = "close" => buf[p] \in Results
  /\ pc[p] \in Cached => shouldUseCache(key[p])

(* A goroutine that leads a flight owns the map's entry; its call is open until
   it closes it.  The open call of a follower is the map's.               *)
Flying(p) ==
  /\ pc[p] \in Leading => inflight[key[p]] = ref[p]
  /\ pc[p] \in Computing => call[ref[p]] = None
  /\ pc[p] = "delete" => call[ref[p]] # None
  /\ pc[p] = "wait" /\ call[ref[p]] = None => inflight[key[p]] = ref[p]

OneLeaderPerKey ==
  \A p, q \in Procs :
    pc[p] \in Leading /\ pc[q] \in Leading /\ key[p] = key[q] => p = q

OneKeyPerCall ==
  \A j, k \in Keys : inflight[j] # None /\ inflight[j] = inflight[k] => j = k

FlightHasLeader ==
  \A k \in Keys : inflight[k] # None =>
    \E p \in Procs : pc[p] \in Leading /\ key[p] = k

L2Past == \A k \in Keys : l2[k] # None => l2[k].at <= now

WritesAreNewer ==
  \A p \in Procs : pc[p] \in {"set1", "set2"} =>
    /\ buf[p] <= now
    /\ l2[key[p]] # None => l2[key[p]].at <= buf[p]

FlightInv ==
  /\ TypeOK
  /\ \A p \in Procs : Working(p) /\ Flying(p)
  /\ OneLeaderPerKey
  /\ OneKeyPerCall
  /\ FlightHasLeader

IInv == FlightInv /\ L2Past /\ WritesAreNewer /\ PBANeverCached

-----------------------------------------------------------------------------
(* Every step keeps every variable within its type, given what a goroutine
   holds where: a cache write needs a dated result, a close any result.   *)
LEMMA TypeStep ==
  ASSUME TypeOK, \A p \in Procs : Working(p), [Next]_vars
  PROVE  TypeOK'
<1> USE CacheAssumption, FineServiceAssumption
<1> USE DEF TypeOK, CacheTypeOK, Labels, Leading, Computing, Goto, Procs
<1>1. ASSUME NEW p \in Callers, NEW k \in Keys, SearchFines(p, k) PROVE TypeOK'
  BY <1>1 DEF SearchFines
<1>2. ASSUME NEW p \in Procs, L1Get(p) PROVE TypeOK'
  BY <1>2 DEF L1Get, L1Live, Entry, Results, Working
<1>3. ASSUME NEW p \in Procs, L1GetDelete(p) PROVE TypeOK'
  BY <1>3 DEF L1GetDelete, L1Delete
<1>4. ASSUME NEW p \in Procs, L2Get(p) PROVE TypeOK'
  BY <1>4 DEF L2Get, L2Live, Entry, Results, Working
<1>5. ASSUME NEW p \in Procs, Backfill(p) PROVE TypeOK'
  BY <1>5 DEF Backfill, L1Put, Entry, Working, Dated
<1>6. ASSUME NEW p \in Procs, AnswerFresh(p) PROVE TypeOK'
  BY <1>6 DEF AnswerFresh, Leave
<1>7. ASSUME NEW p \in Procs, RejectExpired(p) PROVE TypeOK'
  BY <1>7 DEF RejectExpired
<1>8. ASSUME NEW p \in Procs, NEW r \in Refreshers, AnswerStale(p, r) PROVE TypeOK'
  BY <1>8 DEF AnswerStale
<1>9. ASSUME NEW p \in Procs, JoinFlight(p) PROVE TypeOK'
  BY <1>9 DEF JoinFlight, Working
<1>10. ASSUME NEW p \in Procs, NEW c \in Calls, StartFlight(p, c) PROVE TypeOK'
  BY <1>10 DEF StartFlight
<1>11. ASSUME NEW p \in Procs, FetchOK(p) PROVE TypeOK'
  BY <1>11 DEF FetchOK, Results
<1>12. ASSUME NEW p \in Procs, FetchFailed(p) PROVE TypeOK'
  BY <1>12 DEF FetchFailed, Results
<1>13. ASSUME NEW p \in Procs, SetL1(p) PROVE TypeOK'
  BY <1>13 DEF SetL1, L1Put, minDuration, Entry, Working, Dated
<1>14. ASSUME NEW p \in Procs, SetL2(p) PROVE TypeOK'
  BY <1>14 DEF SetL2, L2Put, Entry, Working, Dated
<1>15. ASSUME NEW p \in Procs, CloseFlight(p) PROVE TypeOK'
  BY <1>15 DEF CloseFlight, Working
<1>16. ASSUME NEW p \in Procs, DeleteFlight(p) PROVE TypeOK'
  BY <1>16 DEF DeleteFlight, Leave
<1>17. ASSUME NEW p \in Procs, FollowerReturns(p) PROVE TypeOK'
  BY <1>17 DEF FollowerReturns, Leave
<1>18. CASE Tick /\ UNCHANGED procVars
  BY <1>18 DEF Tick, procVars
<1>19. CASE UNCHANGED vars
  BY <1>19 DEF vars
<1>20. QED
  BY <1>1, <1>2, <1>3, <1>4, <1>5, <1>6, <1>7, <1>8, <1>9, <1>10, <1>11, <1>12,
     <1>13, <1>14, <1>15, <1>16, <1>17, <1>18, <1>19 DEF Next, Step

(* What a goroutine holds fits where it is, whoever moves. *)
LEMMA WorkingStep ==
  ASSUME TypeOK, \A q \in Procs : Working(q), [Next]_vars
  PROVE  \A q \in Procs : Working(q)'
<1> USE CacheAssumption, FineServiceAssumption
<1> USE DEF TypeOK, CacheTypeOK, Labels, Leading, Computing, Joined, Dated, Cached,
            Goto, Procs, Working, Results
<1>1. ASSUME NEW p \in Callers, NEW k \in Keys, SearchFines(p, k) PROVE \A q \in Procs : Working(q)'
  BY <1>1 DEF SearchFines
<1>2. ASSUME NEW p \in Procs, L1Get(p) PROVE \A q \in Procs : Working(q)'
  BY <1>2 DEF L1Get, L1Live, Entry
<1>3. ASSUME NEW p \in Procs, L1GetDelete(p) PROVE \A q \in Procs : Working(q)'
  BY <1>3 DEF L1GetDelete
<1>4. ASSUME NEW p \in Procs, L2Get(p) PROVE \A q \in Procs : Working(q)'
  BY <1>4 DEF L2Get, L2Live, Entry
<1>5. ASSUME NEW p \in Procs, Backfill(p) PROVE \A q \in Procs : Working(q)'
  BY <1>5 DEF Backfill
<1>6. ASSUME NEW p \in Procs, AnswerFresh(p) PROVE \A q \in Procs : Working(q)'
  BY <1>6 DEF AnswerFresh, Leave
<1>7. ASSUME NEW p \in Procs, RejectExpired(p) PROVE \A q \in Procs : Working(q)'
  BY <1>7 DEF RejectExpired
<1>8. ASSUME NEW p \in Procs, NEW r \in Refreshers, AnswerStale(p, r) PROVE \A q \in Procs : Working(q)'
  BY <1>8 DEF AnswerStale
<1>9. ASSUME NEW p \in Procs, JoinFlight(p) PROVE \A q \in Procs : Working(q)'
  BY <1>9 DEF JoinFlight
<1>10. ASSUME NEW p \in Procs, NEW c \in Calls, StartFlight(p, c) PROVE \A q \in Procs : Working(q)'
  BY <1>10 DEF StartFlight, FreeCalls
<1>11. ASSUME NEW p \in Procs, FetchOK(p) PROVE \A q \in Procs : Working(q)'
  BY <1>11 DEF FetchOK
<1>12. ASSUME NEW p \in Procs, FetchFailed(p) PROVE \A q \in Procs : Working(q)'
  BY <1>12 DEF FetchFailed
<1>13. ASSUME NEW p \in Procs, SetL1(p) PROVE \A q \in Procs : Working(q)'
  BY <1>13 DEF SetL1
<1>14. ASSUME NEW p \in Procs, SetL2(p) PROVE \A q \in Procs : Working(q)'
  BY <1>14 DEF SetL2
<1>15. ASSUME NEW p \in Procs, CloseFlight(p) PROVE \A q \in Procs : Working(q)'
  BY <1>15 DEF CloseFlight
<1>16. ASSUME NEW p \in Procs, DeleteFlight(p) PROVE \A q \in Procs : Working(q)'
  BY <1>16 DEF DeleteFlight, Leave
<1>17. ASSUME NEW p \in Procs, FollowerReturns(p) PROVE \A q \in Procs : Working(q)'
  BY <1>17 DEF FollowerReturns, Leave
<1>18. CASE Tick /\ UNCHANGED procVars
  BY <1>18 DEF Tick, procVars
<1>19. CASE UNCHANGED vars
  BY <1>19 DEF vars
<1>20. QED
  BY <1>1, <1>2, <1>3, <1>4, <1>5, <1>6, <1>7, <1>8, <1>9, <1>10, <1>11, <1>12,
     <1>13, <1>14, <1>15, <1>16, <1>17, <1>18, <1>19 DEF Next, Step

(* The map, the calls and the goroutines keep agreeing on who leads what. *)
LEMMA FlyingStep ==
  ASSUME FlightInv, [Next]_vars
  PROVE  \A q \in Procs : Flying(q)'
<1> USE CacheAssumption, FineServiceAssumption
<1> USE DEF FlightInv, TypeOK, CacheTypeOK, Labels, Leading, Computing, Joined, Goto,
            Procs, Working, Flying, Results, OneLeaderPerKey, OneKeyPerCall
<1>1. ASSUME NEW p \in Callers, NEW k \in Keys, SearchFines(p, k) PROVE \A q \in Procs : Flying(q)'
  BY <1>1 DEF SearchFines
<1>2. ASSUME NEW p \in Procs, L1Get(p) PROVE \A q \in Procs : Flying(q)'
  BY <1>2 DEF L1Get, L1Live
<1>3. ASSUME NEW p \in Procs, L1GetDelete(p) PROVE \A q \in Procs : Flying(q)'
  BY <1>3 DEF L1GetDelete
<1>4. ASSUME NEW p \in Procs, L2Get(p) PROVE \A q \in Procs : Flying(q)'
  BY <1>4 DEF L2Get, L2Live
<1>5. ASSUME NEW p \in Procs, Backfill(p) PROVE \A q \in Procs : Flying(q)'
  BY <1>5 DEF Backfill
<1>6. ASSUME NEW p \in Procs, AnswerFresh(p) PROVE \A q \in Procs : Flying(q)'
  BY <1>6 DEF AnswerFresh, Leave
<1>7. ASSUME NEW p \in Procs, RejectExpired(p) PROVE \A q \in Procs : Flying(q)'
  BY <1>7 DEF RejectExpired
<1>8. ASSUME NEW p \in Procs, NEW r \in Refreshers, AnswerStale(p, r) PROVE \A q \in Procs : Flying(q)'
  BY <1>8 DEF AnswerStale
<1>9. ASSUME NEW p \in Procs, JoinFlight(p) PROVE \A q \in Procs : Flying(q)'
  BY <1>9 DEF JoinFlight
<1>10. ASSUME NEW p \in Procs, NEW c \in Calls, StartFlight(p, c) PROVE \A q \in Procs : Flying(q)'
  BY <1>10 DEF StartFlight, FreeCalls
<1>11. ASSUME NEW p \in Procs, FetchOK(p) PROVE \A q \in Procs : Flying(q)'
  BY <1>11 DEF FetchOK
<1>12. ASSUME NEW p \in Procs, FetchFailed(p) PROVE \A q \in Procs : Flying(q)'
  BY <1>12 DEF FetchFailed
<1>13. ASSUME NEW p \in Procs, SetL1(p) PROVE \A q \in Procs : Flying(q)'
  BY <1>13 DEF SetL1
<1>14. ASSUME NEW p \in Procs, SetL2(p) PROVE \A q \in Procs : Flying(q)'
  BY <1>14 DEF SetL2
<1>15. ASSUME NEW p \in Procs, CloseFlight(p) PROVE \A q \in Procs : Flying(q)'
  BY <1>15 DEF CloseFlight
<1>16. ASSUME NEW p \in Procs, DeleteFlight(p) PROVE \A q \in Procs : Flying(q)'
  BY <1>16 DEF DeleteFlight, Leave
<1>17. ASSUME NEW p \in Procs, FollowerReturns(p) PROVE \A q \in Procs : Flying(q)'
  BY <1>17 DEF FollowerReturns, Leave
<1>18. CASE Tick /\ UNCHANGED procVars
  BY <1>18 DEF Tick, procVars
<1>19. CASE UNCHANGED vars
  BY <1>19 DEF vars
<1>20. QED
  BY <1>1, <1>2, <1>3, <1>4, <1>5, <1>6, <1>7, <1>8, <1>9, <1>10, <1>11, <1>12,
     <1>13, <1>14, <1>15, <1>16, <1>17, <1>18, <1>19 DEF Next, Step

(* doSingleFlight: no step makes a second goroutine lead the same call object,
   since only a free object is registered.                                *)
LEMMA OneLeaderStep ==
  ASSUME FlightInv, [Next]_vars
  PROVE  OneLeaderPerKey'
<1> USE CacheAssumption, FineServiceAssumption
<1> USE DEF FlightInv, TypeOK, CacheTypeOK, Labels, Leading, Computing, Joined, Goto,
            Procs, Working, Flying, Results, OneLeaderPerKey
<1>1. ASSUME NEW p \in Callers, NEW k \in Keys, SearchFines(p, k) PROVE OneLeaderPerKey'
  BY <1>1 DEF SearchFines
<1>2. ASSUME NEW p \in Procs, L1Get(p) PROVE OneLeaderPerKey'
  BY <1>2 DEF L1Get, L1Live
<1>3. ASSUME NEW p \in Procs, L1GetDelete(p) PROVE OneLeaderPerKey'
  BY <1>3 DEF L1GetDelete
<1>4. ASSUME NEW p \in Procs, L2Get(p) PROVE OneLeaderPerKey'
  BY <1>4 DEF L2Get, L2Live
<1>5. ASSUME NEW p \in Procs, Backfill(p) PROVE OneLeaderPerKey'
  BY <1>5 DEF Backfill
<1>6. ASSUME NEW p \in Procs, AnswerFresh(p) PROVE OneLeaderPerKey'
  BY <1>6 DEF AnswerFresh, Leave
<1>7. ASSUME NEW p \in Procs, RejectExpired(p) PROVE OneLeaderPerKey'
  BY <1>7 DEF RejectExpired
<1>8. ASSUME NEW p \in Procs, NEW r \in Refreshers, AnswerStale(p, r) PROVE OneLeaderPerKey'
  BY <1>8 DEF AnswerStale
<1>9. ASSUME NEW p \in Procs, JoinFlight(p) PROVE OneLeaderPerKey'
  BY <1>9 DEF JoinFlight
<1>10. ASSUME NEW p \in Procs, NEW c \in Calls, StartFlight(p, c) PROVE OneLeaderPerKey'
  BY <1>10 DEF StartFlight, FreeCalls
<1>11. ASSUME NEW p \in Procs, FetchOK(p) PROVE OneLeaderPerKey'
  BY <1>11 DEF FetchOK
<1>12. ASSUME NEW p \in Procs, FetchFailed(p) PROVE OneLeaderPerKey'
  BY <1>12 DEF FetchFailed
<1>13. ASSUME NEW p \in Procs, SetL1(p) PROVE OneLeaderPerKey'
  BY <1>13 DEF SetL1
<1>14. ASSUME NEW p \in Procs, SetL2(p) PROVE OneLeaderPerKey'
  BY <1>14 DEF SetL2
<1>15. ASSUME NEW p \in Procs, CloseFlight(p) PROVE OneLeaderPerKey'
  BY <1>15 DEF CloseFlight
<1>16. ASSUME NEW p \in Procs, DeleteFlight(p) PROVE OneLeaderPerKey'
  BY <1>16 DEF DeleteFlight, Leave
<1>17. ASSUME NEW p \in Procs, FollowerReturns(p) PROVE OneLeaderPerKey'
  BY <1>17 DEF FollowerReturns, Leave
<1>18. CASE Tick /\ UNCHANGED procVars
  BY <1>18 DEF Tick, procVars
<1>19. CASE UNCHANGED vars
  BY <1>19 DEF vars
<1>20. QED
  BY <1>1, <1>2, <1>3, <1>4, <1>5, <1>6, <1>7, <1>8, <1>9, <1>10, <1>11, <1>12,
     <1>13, <1>14, <1>15, <1>16, <1>17, <1>18, <1>19 DEF Next, Step

(* doSingleFlight: no step registers one call object under two keys. *)
LEMMA OneKeyStep ==
  ASSUME FlightInv, [Next]_vars
  PROVE  OneKeyPerCall'
<1> USE FineServiceAssumption DEF FlightInv, TypeOK, Procs, Working, OneKeyPerCall
<1>1. ASSUME NEW p \in Procs, NEW c \in Calls, StartFlight(p, c) PROVE OneKeyPerCall'
  BY <1>1 DEF StartFlight, FreeCalls
<1>2. ASSUME NEW p \in Procs, DeleteFlight(p) PROVE OneKeyPerCall'
  BY <1>2 DEF DeleteFlight, Leave
<1>3. CASE UNCHANGED inflight
  BY <1>3
<1>4. QED
  BY <1>1, <1>2, <1>3 DEF Next, Step, vars, procVars, SearchFines, L1Get, L1GetDelete,
     L2Get, Backfill, AnswerFresh, RejectExpired, AnswerStale, JoinFlight, FetchOK,
     FetchFailed, SetL1, SetL2, CloseFlight, FollowerReturns

(* doSingleFlight: a call in the map keeps a goroutine that leads it, and an
   entry is deleted only by that goroutine.                               *)
LEMMA FlightHasLeaderStep ==
  ASSUME FlightInv, [Next]_vars
  PROVE  FlightHasLeader'
<1> USE CacheAssumption, FineServiceAssumption
<1> USE DEF FlightInv, TypeOK, CacheTypeOK, Labels, Leading, Computing, Joined, Goto,
            Procs, Working, FlightHasLeader
<1>1. ASSUME NEW p \in Callers, NEW k \in Keys, SearchFines(p, k) PROVE FlightHasLeader'
  BY <1>1 DEF SearchFines
<1>2. ASSUME NEW p \in Procs, L1Get(p) PROVE FlightHasLeader'
  BY <1>2 DEF L1Get, L1Live
<1>3. ASSUME NEW p \in Procs, L1GetDelete(p) PROVE FlightHasLeader'
  BY <1>3 DEF L1GetDelete
<1>4. ASSUME NEW p \in Procs, L2Get(p) PROVE FlightHasLeader'
  BY <1>4 DEF L2Get, L2Live
<1>5. ASSUME NEW p \in Procs, Backfill(p) PROVE FlightHasLeader'
  BY <1>5 DEF Backfill
<1>6. ASSUME NEW p \in Procs, AnswerFresh(p) PROVE FlightHasLeader'
  BY <1>6 DEF AnswerFresh, Leave
<1>7. ASSUME NEW p \in Procs, RejectExpired(p) PROVE FlightHasLeader'
  BY <1>7 DEF RejectExpired
<1>8. ASSUME NEW p \in Procs, NEW r \in Refreshers, AnswerStale(p, r) PROVE FlightHasLeader'
  BY <1>8 DEF AnswerStale
<1>9. ASSUME NEW p \in Procs, JoinFlight(p) PROVE FlightHasLeader'
  BY <1>9 DEF JoinFlight
<1>10. ASSUME NEW p \in Procs, NEW c \in Calls, StartFlight(p, c) PROVE FlightHasLeader'
  BY <1>10 DEF StartFlight, FreeCalls
<1>11. ASSUME NEW p \in Procs, FetchOK(p) PROVE FlightHasLeader'
  BY <1>11 DEF FetchOK
<1>12. ASSUME NEW p \in Procs, FetchFailed(p) PROVE FlightHasLeader'
  BY <1>12 DEF FetchFailed
<1>13. ASSUME NEW p \in Procs, SetL1(p) PROVE FlightHasLeader'
  BY <1>13 DEF SetL1
<1>14. ASSUME NEW p \in Procs, SetL2(p) PROVE FlightHasLeader'
  BY <1>14 DEF SetL2
<1>15. ASSUME NEW p \in Procs, CloseFlight(p) PROVE FlightHasLeader'
  BY <1>15 DEF CloseFlight
<1>16. ASSUME NEW p \in Procs, DeleteFlight(p) PROVE FlightHasLeader'
  BY <1>16 DEF DeleteFlight, Leave
<1>17. ASSUME NEW p \in Procs, FollowerReturns(p) PROVE FlightHasLeader'
  BY <1>17 DEF FollowerReturns, Leave
<1>18. CASE Tick /\ UNCHANGED procVars
  BY <1>18 DEF Tick, procVars
<1>19. CASE UNCHANGED vars
  BY <1>19 DEF vars
<1>20. QED
  BY <1>1, <1>2, <1>3, <1>4, <1>5, <1>6, <1>7, <1>8, <1>9, <1>10, <1>11, <1>12,
     <1>13, <1>14, <1>15, <1>16, <1>17, <1>18, <1>19 DEF Next, Step

(* doSingleFlight: the invariant of the map, the calls and the goroutines, of
   which the types and the deduplication are consequences.                *)
THEOREM FlightInvHolds == Spec => []FlightInv
<1>1. Init => FlightInv
  BY CacheAssumption, FineServiceAssumption
     DEF Init, CacheInit, FlightInv, TypeOK, CacheTypeOK, Labels, Working, Flying, Joined,
         Leading, Computing, Dated, Cached, Procs, OneLeaderPerKey, OneKeyPerCall,
         FlightHasLeader
<1>2. FlightInv /\ [Next]_vars => FlightInv'
  <2> SUFFICES ASSUME FlightInv, [Next]_vars PROVE FlightInv'
    OBVIOUS
  <2>1. TypeOK /\ \A p \in Procs : Working(p)
    BY DEF FlightInv
  <2>2. TypeOK' /\ \A p \in Procs : Working(p)'
    BY <2>1, TypeStep, WorkingStep
  <2>3. QED
    BY <2>2, FlyingStep, OneLeaderStep, OneKeyStep, FlightHasLeaderStep DEF FlightInv, Procs
<1>3. QED
  BY <1>1, <1>2, PTL DEF Spec

(* TypeOK of FineService: every variable of the service and of its cache keeps
   to its type, whatever the goroutines do to each other.                 *)
THEOREM FineServiceTypes == Spec => []TypeOK
<1>1. FlightInv => TypeOK
  BY DEF FlightInv
<1>2. QED
  BY <1>1, FlightInvHolds, PTL

(* doSingleFlight: for any number of goroutines, one at most computes a key. *)
THEOREM Deduplication == Spec => []OneFetchPerKey
<1>1. FlightInv => OneFetchPerKey
  BY DEF FlightInv, OneLeaderPerKey, OneFetchPerKey, Leading
<1>2. QED
  BY <1>1, FlightInvHolds, PTL

(* doSingleFlight: a follower of an open call is never left without the leader
   that will close it.                                                    *)
THEOREM FollowersHaveLeaders == Spec => []NoOrphanFollower
<1>1. FlightInv => NoOrphanFollower
  <2> SUFFICES ASSUME FlightInv, NEW p \in Procs, pc[p] = "wait", call[ref[p]] = None
               PROVE  \E q \in Procs : pc[q] \in Computing /\ ref[q] = ref[p] /\ key[q] = key[p]
    BY DEF NoOrphanFollower
  <2>1. key[p] \in Keys /\ ref[p] \in Calls /\ inflight[key[p]] = ref[p]
    BY DEF FlightInv, Working, Flying, Joined
  <2>2. PICK q \in Procs : pc[q] \in Leading /\ key[q] = key[p]
    BY <2>1, FineServiceAssumption DEF FlightInv, FlightHasLeader
  <2>3. ref[q] = ref[p] /\ pc[q] # "delete"
    BY <2>1, <2>2 DEF FlightInv, Flying
  <2>4. QED
    BY <2>2, <2>3 DEF Leading
<1>2. QED
  BY <1>1, FlightInvHolds, PTL

-----------------------------------------------------------------------------
(* What the leader of a key is about to write is newer than what Redis holds:
   other goroutines write other keys.                                     *)
LEMMA TimesStep ==
  ASSUME FlightInv, L2Past, WritesAreNewer, [Next]_vars
  PROVE  L2Past' /\ WritesAreNewer'
<1> USE CacheAssumption, FineServiceAssumption
<1> USE DEF FlightInv, TypeOK, CacheTypeOK, Entry, Labels, Leading, Computing, Dated,
            Goto, Procs, Working, OneLeaderPerKey, L2Past, WritesAreNewer
<1>1. ASSUME NEW p \in Callers, NEW k \in Keys, SearchFines(p, k) PROVE L2Past' /\ WritesAreNewer'
  BY <1>1 DEF SearchFines
<1>2. ASSUME NEW p \in Procs, L1Get(p) PROVE L2Past' /\ WritesAreNewer'
  BY <1>2 DEF L1Get, L1Live
<1>3. ASSUME NEW p \in Procs, L1GetDelete(p) PROVE L2Past' /\ WritesAreNewer'
  BY <1>3 DEF L1GetDelete, L1Delete
<1>4. ASSUME NEW p \in Procs, L2Get(p) PROVE L2Past' /\ WritesAreNewer'
  BY <1>4 DEF L2Get, L2Live
<1>5. ASSUME NEW p \in Procs, Backfill(p) PROVE L2Past' /\ WritesAreNewer'
  BY <1>5 DEF Backfill, L1Put
<1>6. ASSUME NEW p \in Procs, AnswerFresh(p) PROVE L2Past' /\ WritesAreNewer'
  BY <1>6 DEF AnswerFresh, Leave
<1>7. ASSUME NEW p \in Procs, RejectExpired(p) PROVE L2Past' /\ WritesAreNewer'
  BY <1>7 DEF RejectExpired
<1>8. ASSUME NEW p \in Procs, NEW r \in Refreshers, AnswerStale(p, r) PROVE L2Past' /\ WritesAreNewer'
  BY <1>8 DEF AnswerStale
<1>9. ASSUME NEW p \in Procs, JoinFlight(p) PROVE L2Past' /\ WritesAreNewer'
  BY <1>9 DEF JoinFlight
<1>10. ASSUME NEW p \in Procs, NEW c \in Calls, StartFlight(p, c) PROVE L2Past' /\ WritesAreNewer'
  BY <1>10 DEF StartFlight, FreeCalls
<1>11. ASSUME NEW p \in Procs, FetchOK(p) PROVE L2Past' /\ WritesAreNewer'
  BY <1>11 DEF FetchOK
<1>12. ASSUME NEW p \in Procs, FetchFailed(p) PROVE L2Past' /\ WritesAreNewer'
  BY <1>12 DEF FetchFailed
<1>13. ASSUME NEW p \in Procs, SetL1(p) PROVE L2Past' /\ WritesAreNewer'
  BY <1>13 DEF SetL1, L1Put
<1>14. ASSUME NEW p \in Procs, SetL2(p) PROVE L2Past' /\ WritesAreNewer'
  BY <1>14 DEF SetL2, L2Put
<1>15. ASSUME NEW p \in Procs, CloseFlight(p) PROVE L2Past' /\ WritesAreNewer'
  BY <1>15 DEF CloseFlight
<1>16. ASSUME NEW p \in Procs, DeleteFlight(p) PROVE L2Past' /\ WritesAreNewer'
  BY <1>16 DEF DeleteFlight, Leave
<1>17. ASSUME NEW p \in Procs, FollowerReturns(p) PROVE L2Past' /\ WritesAreNewer'
  BY <1>17 DEF FollowerReturns, Leave
<1>18. CASE Tick /\ UNCHANGED procVars
  BY <1>18 DEF Tick, procVars
<1>19. CASE UNCHANGED vars
  BY <1>19 DEF vars
<1>20. QED
  BY <1>1, <1>2, <1>3, <1>4, <1>5, <1>6, <1>7, <1>8, <1>9, <1>10, <1>11, <1>12,
     <1>13, <1>14, <1>15, <1>16, <1>17, <1>18, <1>19 DEF Next, Step

(* Keys of the source "pba" are outside every section that touches the cache. *)
LEMMA UncachedStep ==
  ASSUME FlightInv, PBANeverCached, [Next]_vars
  PROVE  PBANeverCached'
<1> USE FineServiceAssumption
    DEF FlightInv, TypeOK, CacheTypeOK, Procs, Working, Cached, shouldUseCache, PBANeverCached
<1>1. ASSUME NEW p \in Procs, L1GetDelete(p) PROVE PBANeverCached'
  BY <1>1 DEF L1GetDelete, L1Delete
<1>2. ASSUME NEW p \in Procs, Backfill(p) PROVE PBANeverCached'
  BY <1>2 DEF Backfill, L1Put
<1>3. ASSUME NEW p \in Procs, SetL1(p) PROVE PBANeverCached'
  BY <1>3 DEF SetL1, L1Put
<1>4. ASSUME NEW p \in Procs, SetL2(p) PROVE PBANeverCached'
  BY <1>4 DEF SetL2, L2Put
<1>5. CASE UNCHANGED <<l1, l2>>
  BY <1>5
<1>6. QED
  BY <1>1, <1>2, <1>3, <1>4, <1>5 DEF Next, Step, Tick, vars, SearchFines, L1Get, L2Get,
     AnswerFresh, RejectExpired, AnswerStale, JoinFlight, StartFlight, FetchOK,
     FetchFailed, CloseFlight, DeleteFlight, FollowerReturns

(* SearchFines and the cache: the whole inductive invariant, with the times of
   what is cached and about to be cached, and "pba" kept out of it.       *)
THEOREM IInvHolds == Spec => []IInv
<1>1. Init => L2Past /\ WritesAreNewer /\ PBANeverCached
  BY FineServiceAssumption DEF Init, CacheInit, Procs, L2Past, WritesAreNewer, PBANeverCached
<1>2. FlightInv /\ L2Past /\ WritesAreNewer /\ PBANeverCached /\ [Next]_vars
        => (L2Past /\ WritesAreNewer /\ PBANeverCached)'
  BY TimesStep, UncachedStep
<1>3. QED
  BY <1>1, <1>2, FlightInvHolds, PTL DEF Spec, IInv

(* The source decision of SearchFines: results of "pba" are never kept. *)
THEOREM PBAStaysOut == Spec => []PBANeverCached
<1>1. IInv => PBANeverCached
  BY DEF IInv
<1>2. QED
  BY <1>1, IInvHolds, PTL

(* The cache writes of fn: Redis never goes back to an older result of a key. *)
THEOREM RedisMovesForward == Spec => L2NeverRegresses
<1>1. IInv /\ [Next]_vars =>
        [\A k \in Keys : l2[k] # None => l2'[k] # None /\ l2'[k].at >= l2[k].at]_vars
  <2> SUFFICES ASSUME IInv, [Next]_vars, NEW k \in Keys, l2[k] # None
               PROVE  l2'[k] # None /\ l2'[k].at >= l2[k].at
    OBVIOUS
  <2> USE CacheAssumption
      DEF IInv, FlightInv, TypeOK, CacheTypeOK, Entry, Procs, Working, Dated, WritesAreNewer
  <2>1. ASSUME NEW p \in Procs, SetL2(p) PROVE l2'[k] # None /\ l2'[k].at >= l2[k].at
    BY <2>1 DEF SetL2, L2Put
  <2>2. CASE UNCHANGED l2
    BY <2>2
  <2>3. QED
    BY <2>1, <2>2 DEF Next, Step, Tick, vars, SearchFines, L1Get, L1GetDelete, L2Get,
       Backfill, AnswerFresh, RejectExpired, AnswerStale, JoinFlight, StartFlight, FetchOK,
       FetchFailed, SetL1, CloseFlight, DeleteFlight, FollowerReturns
<1>2. QED
  BY <1>1, IInvHolds, PTL DEF Spec, L2NeverRegresses

-----------------------------------------------------------------------------
(* FineService implements SingleFlight: what doSingleFlight does with a map, a
   mutex, channels and call objects is, seen through the mapping at the end
   of FineService, a behaviour of the abstract single flight.  Five actions
   of the service are steps of the abstract one, each by a lemma of its
   own; all the others leave the four mapped values alone.                *)

(* The rest of what the refinement needs: nobody refers to a call who is not in
   doSingleFlight, and results come from before the clock's bound.        *)
Outside(p) == pc[p] \notin Joined => ref[p] = None

InTime(p) == pc[p] = "close" => buf[p] = Failed \/ buf[p] \in 0 .. MaxTime

RefInv == now <= MaxTime /\ \A p \in Procs : Outside(p) /\ InTime(p)

(* No step leaves a goroutine outside doSingleFlight with a call, or with a
   result from the future.                                                *)
LEMMA RefInvStep ==
  ASSUME IInv, RefInv, [Next]_vars
  PROVE  RefInv'
<1> USE CacheAssumption, FineServiceAssumption
<1> USE DEF IInv, FlightInv, TypeOK, CacheTypeOK, Labels, Leading, Computing, Joined, Dated,
            Goto, Procs, Working, WritesAreNewer, RefInv, Outside, InTime
<1>1. ASSUME NEW p \in Callers, NEW k \in Keys, SearchFines(p, k) PROVE RefInv'
  BY <1>1 DEF SearchFines
<1>2. ASSUME NEW p \in Procs, L1Get(p) PROVE RefInv'
  BY <1>2 DEF L1Get, L1Live
<1>3. ASSUME NEW p \in Procs, L1GetDelete(p) PROVE RefInv'
  BY <1>3 DEF L1GetDelete
<1>4. ASSUME NEW p \in Procs, L2Get(p) PROVE RefInv'
  BY <1>4 DEF L2Get, L2Live
<1>5. ASSUME NEW p \in Procs, Backfill(p) PROVE RefInv'
  BY <1>5 DEF Backfill
<1>6. ASSUME NEW p \in Procs, AnswerFresh(p) PROVE RefInv'
  BY <1>6 DEF AnswerFresh, Leave
<1>7. ASSUME NEW p \in Procs, RejectExpired(p) PROVE RefInv'
  BY <1>7 DEF RejectExpired
<1>8. ASSUME NEW p \in Procs, NEW r \in Refreshers, AnswerStale(p, r) PROVE RefInv'
  BY <1>8 DEF AnswerStale
<1>9. ASSUME NEW p \in Procs, JoinFlight(p) PROVE RefInv'
  BY <1>9 DEF JoinFlight
<1>10. ASSUME NEW p \in Procs, NEW c \in Calls, StartFlight(p, c) PROVE RefInv'
  BY <1>10 DEF StartFlight, FreeCalls
<1>11. ASSUME NEW p \in Procs, FetchOK(p) PROVE RefInv'
  BY <1>11 DEF FetchOK
<1>12. ASSUME NEW p \in Procs, FetchFailed(p) PROVE RefInv'
  BY <1>12 DEF FetchFailed
<1>13. ASSUME NEW p \in Procs, SetL1(p) PROVE RefInv'
  BY <1>13 DEF SetL1
<1>14. ASSUME NEW p \in Procs, SetL2(p) PROVE RefInv'
  BY <1>14 DEF SetL2
<1>15. ASSUME NEW p \in Procs, CloseFlight(p) PROVE RefInv'
  BY <1>15 DEF CloseFlight
<1>16. ASSUME NEW p \in Procs, DeleteFlight(p) PROVE RefInv'
  BY <1>16 DEF DeleteFlight, Leave
<1>17. ASSUME NEW p \in Procs, FollowerReturns(p) PROVE RefInv'
  BY <1>17 DEF FollowerReturns, Leave
<1>18. CASE Tick /\ UNCHANGED procVars
  BY <1>18 DEF Tick, procVars
<1>19. CASE UNCHANGED vars
  BY <1>19 DEF vars
<1>20. QED
  BY <1>1, <1>2, <1>3, <1>4, <1>5, <1>6, <1>7, <1>8, <1>9, <1>10, <1>11, <1>12,
     <1>13, <1>14, <1>15, <1>16, <1>17, <1>18, <1>19 DEF Next, Step

(* doSingleFlight: the extra invariant the refinement rests on. *)
LEMMA RefInvHolds == Spec => []RefInv
<1>1. Init => RefInv
  BY CacheAssumption
     DEF Init, CacheInit, RefInv, Outside, InTime, Procs, Joined, Leading, Computing
<1>2. QED
  BY <1>1, RefInvStep, IInvHolds, PTL DEF Spec

(* Registering a call starts a flight. *)
LEMMA StartSimulates ==
  ASSUME IInv, RefInv, NEW p \in Procs, NEW c \in Calls, StartFlight(p, c)
  PROVE  Flight!Start(p, key[p])
<1> USE FineServiceAssumption
<1> USE DEF IInv, FlightInv, TypeOK, Procs, Working, Joined, RefInv, Outside, StartFlight,
            FreeCalls, Goto
<1>1. key[p] \in Keys /\ wanted[p] = None /\ key[p] \notin openFlights /\ doneFlights[key[p]] = None
  BY DEF wanted, openFlights, doneFlights, Leading, Computing
<1>2. openFlights' = openFlights \cup {key[p]}
  BY DEF openFlights
<1>3. doneFlights' = doneFlights
  BY DEF doneFlights
<1>4. wanted' = [wanted EXCEPT ![p] = key[p]]
  BY DEF wanted
<1>5. obtained' = obtained
  BY DEF obtained, Leading, Computing
<1>6. QED
  BY <1>1, <1>2, <1>3, <1>4, <1>5 DEF Flight!Start

(* Finding a call in the map is joining a flight, or a landed one. *)
LEMMA JoinSimulates ==
  ASSUME IInv, RefInv, NEW p \in Procs, JoinFlight(p)
  PROVE  Flight!Join(p, key[p]) \/ Flight!JoinLate(p, key[p])
<1> USE FineServiceAssumption
<1> USE DEF IInv, FlightInv, TypeOK, Procs, Working, Joined, RefInv, Outside, JoinFlight, Goto
<1>1. key[p] \in Keys /\ wanted[p] = None /\ inflight[key[p]] \in Calls
  BY DEF wanted, Leading, Computing
<1>2. UNCHANGED <<openFlights, doneFlights>>
  BY DEF openFlights, doneFlights
<1>3. wanted' = [wanted EXCEPT ![p] = key[p]]
  BY <1>1 DEF wanted
<1>4. obtained' = [obtained EXCEPT ![p] = call[inflight[key[p]]]]
  BY <1>1 DEF obtained
<1>5. CASE call[inflight[key[p]]] = None
  <2>1. obtained' = obtained
    BY <1>4, <1>5 DEF obtained, Leading, Computing
  <2>2. key[p] \in openFlights
    BY <1>1, <1>5 DEF openFlights
  <2>3. QED
    BY <1>1, <1>2, <1>3, <2>1, <2>2 DEF Flight!Join
<1>6. CASE call[inflight[key[p]]] # None
  <2>1. doneFlights[key[p]] = call[inflight[key[p]]]
    BY <1>1 DEF doneFlights
  <2>2. QED
    BY <1>1, <1>2, <1>3, <1>4, <1>6, <2>1 DEF Flight!JoinLate
<1>7. QED
  BY <1>5, <1>6

(* close(call.done) lands the flight for everybody who waits for it. *)
LEMMA CloseSimulates ==
  ASSUME IInv, RefInv, NEW p \in Procs, CloseFlight(p)
  PROVE  /\ buf[p] \in (0 .. MaxTime) \cup {Failed}
         /\ Flight!Finish(key[p], buf[p])
<1> USE FineServiceAssumption
<1> USE DEF IInv, FlightInv, TypeOK, Procs, Working, Flying, Joined, Leading, Computing, CloseFlight
<1>1. /\ key[p] \in Keys /\ ref[p] \in Calls /\ inflight[key[p]] = ref[p]
      /\ call[ref[p]] = None
      /\ buf[p] # None /\ buf[p] \in (0 .. MaxTime) \cup {Failed}
  BY DEF RefInv, InTime, Results
<1>2. key[p] \in openFlights
  BY <1>1 DEF openFlights
<1>3. \A k \in Keys : inflight[k] = ref[p] <=> k = key[p]
  BY <1>1 DEF OneKeyPerCall
<1>4. openFlights' = openFlights \ {key[p]}
  BY <1>1, <1>3 DEF openFlights
<1>5. doneFlights' = [doneFlights EXCEPT ![key[p]] = buf[p]]
  BY <1>1, <1>3 DEF doneFlights
<1>6. wanted' = wanted
  BY DEF wanted
<1>7. ASSUME NEW q \in Procs
      PROVE  obtained'[q] = IF wanted[q] = key[p] /\ obtained[q] = None THEN buf[p] ELSE obtained[q]
  <2>1. CASE ref[q] = None
    BY <1>1, <2>1 DEF obtained, wanted
  <2>2. CASE ref[q] # None
    <3>1. pc[q] \in Joined /\ key[q] \in Keys /\ ref[q] \in Calls
      BY <2>2 DEF RefInv, Outside
    <3>2. call[ref[q]] = None => inflight[key[q]] = ref[q]
      BY <3>1
    <3>3. ref[q] = ref[p] <=> key[q] = key[p] /\ call[ref[q]] = None
      BY <1>1, <1>3, <3>1, <3>2
    <3>4. QED
      BY <1>1, <2>2, <3>1, <3>3 DEF obtained, wanted
  <2>3. QED
    BY <2>1, <2>2
<1>8. obtained' = [q \in Procs |->
        IF wanted[q] = key[p] /\ obtained[q] = None THEN buf[p] ELSE obtained[q]]
  <2>1. obtained' = [q \in Procs |-> obtained'[q]]
    BY Zenon DEF obtained
  <2>2. QED
    BY <1>7, <2>1, Zenon
<1>9. QED
  BY <1>1, <1>2, <1>4, <1>5, <1>6, <1>8 DEF Flight!Finish, Procs

(* delete(s.inflight, key) retires the result, and the leader returns. *)
LEMMA DeleteSimulates ==
  ASSUME IInv, RefInv, NEW p \in Procs, DeleteFlight(p)
  PROVE  Flight!Retire(p, key[p])
<1> USE FineServiceAssumption
<1> USE DEF IInv, FlightInv, TypeOK, Procs, Working, Flying, Joined, Leading, DeleteFlight, Leave
<1>1. /\ key[p] \in Keys /\ ref[p] \in Calls /\ inflight[key[p]] = ref[p]
      /\ call[ref[p]] # None
  OBVIOUS
<1>2. wanted[p] = key[p] /\ doneFlights[key[p]] # None /\ obtained[p] # None
  BY <1>1 DEF wanted, doneFlights, obtained
<1>3. openFlights' = openFlights
  BY <1>1 DEF openFlights
<1>4. doneFlights' = [doneFlights EXCEPT ![key[p]] = None]
  BY <1>1 DEF doneFlights
<1>5. wanted' = [wanted EXCEPT ![p] = None]
  BY DEF wanted
<1>6. obtained' = [obtained EXCEPT ![p] = None]
  BY DEF obtained
<1>7. QED
  BY <1>2, <1>3, <1>4, <1>5, <1>6 DEF Flight!Retire, Flight!Leave

(* <-existing.done lets the follower return with the flight's result. *)
LEMMA FollowerSimulates ==
  ASSUME IInv, RefInv, NEW p \in Procs, FollowerReturns(p)
  PROVE  Flight!Return(p)
<1> USE FineServiceAssumption
<1> USE DEF IInv, FlightInv, TypeOK, Procs, Working, Joined, FollowerReturns, Leave
<1>1. obtained[p] # None
  BY DEF obtained
<1>2. UNCHANGED <<openFlights, doneFlights>>
  BY DEF openFlights, doneFlights
<1>3. wanted' = [wanted EXCEPT ![p] = None]
  BY DEF wanted
<1>4. obtained' = [obtained EXCEPT ![p] = None]
  BY DEF obtained
<1>5. QED
  BY <1>1, <1>2, <1>3, <1>4 DEF Flight!Return, Flight!Leave

(* A goroutine outside doSingleFlight refers to no call: its moves go unseen. *)
LEMMA OthersStutter ==
  ASSUME IInv, RefInv, UNCHANGED <<inflight, call, ref>>,
         \A p \in Procs : key'[p] = key[p] \/ ref[p] = None
  PROVE  UNCHANGED Flight!flightVars
<1>1. UNCHANGED <<openFlights, doneFlights, obtained>>
  BY DEF openFlights, doneFlights, obtained
<1>2. UNCHANGED wanted
  BY DEF wanted
<1>3. QED
  BY <1>1, <1>2 DEF Flight!flightVars

(* Every step of the service is one of the abstract single flight or none. *)
LEMMA StepSimulates ==
  ASSUME IInv, RefInv, [Next]_vars
  PROVE  [Flight!FlightNext]_(Flight!flightVars)
<1> USE DEF IInv, FlightInv, TypeOK, Procs, Working
<1>1. ASSUME NEW p \in Procs, NEW c \in Calls, StartFlight(p, c) PROVE Flight!FlightNext
  BY <1>1, StartSimulates DEF Flight!FlightNext, StartFlight
<1>2. ASSUME NEW p \in Procs, JoinFlight(p) PROVE Flight!FlightNext
  BY <1>2, JoinSimulates DEF Flight!FlightNext, JoinFlight
<1>3. ASSUME NEW p \in Procs, CloseFlight(p) PROVE Flight!FlightNext
  BY <1>3, CloseSimulates DEF Flight!FlightNext, CloseFlight
<1>4. ASSUME NEW p \in Procs, DeleteFlight(p) PROVE Flight!FlightNext
  BY <1>4, DeleteSimulates DEF Flight!FlightNext, DeleteFlight
<1>5. ASSUME NEW p \in Procs, FollowerReturns(p) PROVE Flight!FlightNext
  BY <1>5, FollowerSimulates DEF Flight!FlightNext
<1>6. CASE /\ UNCHANGED <<inflight, call, ref>>
           /\ \A p \in Procs : key'[p] = key[p] \/ ref[p] = None
  BY <1>6, OthersStutter
<1>7. QED
  <2> USE DEF RefInv, Outside, Joined, Leading, Computing
  <2>1. ASSUME NEW p \in Callers, NEW k \in Keys, SearchFines(p, k)
        PROVE  UNCHANGED <<inflight, call, ref>> /\ \A q \in Procs : key'[q] = key[q] \/ ref[q] = None
    BY <2>1 DEF SearchFines
  <2>2. ASSUME NEW p \in Procs, AnswerFresh(p)
        PROVE  UNCHANGED <<inflight, call, ref>> /\ \A q \in Procs : key'[q] = key[q] \/ ref[q] = None
    BY <2>2 DEF AnswerFresh, Leave
  <2>3. ASSUME NEW p \in Procs, NEW r \in Refreshers, AnswerStale(p, r)
        PROVE  UNCHANGED <<inflight, call, ref>> /\ \A q \in Procs : key'[q] = key[q] \/ ref[q] = None
    BY <2>3 DEF AnswerStale
  <2>4. CASE UNCHANGED <<inflight, call, ref, key>>
    BY <1>6, <2>4
  <2>5. QED
    BY <1>1, <1>2, <1>3, <1>4, <1>5, <1>6, <2>1, <2>2, <2>3, <2>4
       DEF Next, Step, Tick, vars, procVars, L1Get, L1GetDelete, L2Get, Backfill,
           RejectExpired, FetchOK, FetchFailed, SetL1, SetL2

(* doSingleFlight, spread over the map, the mutex, the channels and the call
   objects of many goroutines, keeps the promise SingleFlight states.     *)
THEOREM ServiceImplementsSingleFlight == Spec => ImplementsSingleFlight
<1>1. Init => Flight!FlightInit
  BY DEF Init, Flight!FlightInit, openFlights, doneFlights, wanted, obtained
<1>2. QED
  BY <1>1, StepSimulates, IInvHolds, RefInvHolds, PTL
     DEF Spec, ImplementsSingleFlight, Flight!FlightSpec

-----------------------------------------------------------------------------
(* Calls end                                                               *)

(* The steps a goroutine has left, at most. *)
stepsLeft(p) ==
  CASE pc[p] = "idle"   -> 0
    [] pc[p] \in {"wait", "delete"} -> 1
    [] pc[p] = "close"  -> 2
    [] pc[p] = "set2"   -> 3
    [] pc[p] = "set1"   -> 4
    [] pc[p] = "fetch"  -> 5
    [] pc[p] = "enter"  -> 6
    [] pc[p] = "check"  -> 7
    [] pc[p] = "fill"   -> 8
    [] pc[p] = "l2get"  -> 9
    [] pc[p] = "l1del"  -> 10
    [] pc[p] = "l1get"  -> 11

(* A goroutine on its way gets nearer to its return with every step of its own,
   and no step of another one moves it: there is no way back from the flight to
   the cache, nor from an expired entry to a second look.                 *)
CallsGetShorter ==
  [][\A p \in Procs : pc[p] # "idle" =>
       UNCHANGED pc[p] \/ stepsLeft(p)' < stepsLeft(p)]_vars

(* A step of p shortens what p has left, and moves nobody else but a goroutine that
   has not started yet.                                                   *)
LEMMA CallGetsShorter ==
  ASSUME TypeOK, NEW p \in Procs, Step(p)
  PROVE  /\ stepsLeft(p)' < stepsLeft(p)
         /\ \A q \in Procs \ {p} : pc[q] # "idle" => UNCHANGED pc[q]
<1> USE DEF Goto, Leave
<1>1. pc \in [Procs -> Labels]
  BY DEF TypeOK
<1>2. CASE L1Get(p)
  <2>1. /\ pc[p] = "l1get"
        /\ \E label \in {"l2get", "l1del", "check"} : pc' = [pc EXCEPT ![p] = label]
    BY <1>2 DEF L1Get
  <2> QED  BY <1>1, <2>1 DEF stepsLeft
<1>3. CASE L1GetDelete(p) \/ L2Get(p)
  <2>1. /\ pc[p] \in {"l1del", "l2get"}
        /\ \E label \in {"l2get", "enter", "fill"} :
             (label = "l2get" => pc[p] = "l1del") /\ pc' = [pc EXCEPT ![p] = label]
    BY <1>3 DEF L1GetDelete, L2Get
  <2> QED  BY <1>1, <2>1 DEF stepsLeft
<1>4. CASE Backfill(p) \/ RejectExpired(p)
  <2>1. \/ pc[p] = "fill" /\ pc' = [pc EXCEPT ![p] = "check"]
        \/ pc[p] = "check" /\ pc' = [pc EXCEPT ![p] = "enter"]
    BY <1>4 DEF Backfill, RejectExpired
  <2> QED  BY <1>1, <2>1 DEF stepsLeft
<1>5. CASE AnswerFresh(p) \/ DeleteFlight(p) \/ FollowerReturns(p)
  <2>1. pc[p] \in {"check", "delete", "wait"} /\ pc' = [pc EXCEPT ![p] = "idle"]
    BY <1>5 DEF AnswerFresh, DeleteFlight, FollowerReturns
  <2> QED  BY <1>1, <2>1 DEF stepsLeft
<1>6. ASSUME NEW r \in Refreshers, AnswerStale(p, r)
      PROVE  /\ stepsLeft(p)' < stepsLeft(p)
             /\ \A q \in Procs \ {p} : pc[q] # "idle" => UNCHANGED pc[q]
  <2>1. /\ pc[p] = "check" /\ pc[r] = "idle"
        /\ pc' = [pc EXCEPT ![p] = "idle", ![r] = "enter"]
    BY <1>6 DEF AnswerStale
  <2> QED  BY <1>1, <2>1 DEF stepsLeft
<1>7. CASE JoinFlight(p) \/ \E c \in Calls : StartFlight(p, c)
  <2>1. /\ pc[p] = "enter"
        /\ \E label \in {"wait", "fetch"} : pc' = [pc EXCEPT ![p] = label]
    BY <1>7 DEF JoinFlight, StartFlight
  <2> QED  BY <1>1, <2>1 DEF stepsLeft
<1>8. CASE FetchOK(p) \/ FetchFailed(p)
  <2>1. /\ pc[p] = "fetch"
        /\ \E label \in {"set1", "close"} : pc' = [pc EXCEPT ![p] = label]
    BY <1>8 DEF FetchOK, FetchFailed
  <2> QED  BY <1>1, <2>1 DEF stepsLeft
<1>9. CASE SetL1(p) \/ SetL2(p) \/ CloseFlight(p)
  <2>1. \/ pc[p] = "set1" /\ pc' = [pc EXCEPT ![p] = "set2"]
        \/ pc[p] = "set2" /\ pc' = [pc EXCEPT ![p] = "close"]
        \/ pc[p] = "close" /\ pc' = [pc EXCEPT ![p] = "delete"]
    BY <1>9 DEF SetL1, SetL2, CloseFlight
  <2> QED  BY <1>1, <2>1 DEF stepsLeft
<1> QED  BY <1>2, <1>3, <1>4, <1>5, <1>6, <1>7, <1>8, <1>9 DEF Step

(* The safety half of EveryCallReturns: SearchFines and refreshCache take at most
   eleven steps of their own.  With FollowersHaveLeaders: whoever waits at one of
   them waits for a goroutine that has fewer than six left.               *)
THEOREM CallsEnd == Spec => CallsGetShorter
<1>1. TypeOK /\ [Next]_vars =>
        [\A p \in Procs : pc[p] # "idle" =>
           UNCHANGED pc[p] \/ stepsLeft(p)' < stepsLeft(p)]_vars
  <2> SUFFICES ASSUME TypeOK, [Next]_vars, NEW p \in Procs, pc[p] # "idle"
               PROVE  UNCHANGED pc[p] \/ stepsLeft(p)' < stepsLeft(p)
    OBVIOUS
  <2>1. ASSUME NEW q \in Procs, Step(q)
        PROVE  UNCHANGED pc[p] \/ stepsLeft(p)' < stepsLeft(p)
    BY <2>1, CallGetsShorter
  <2>2. ASSUME NEW q \in Callers, NEW k \in Keys, SearchFines(q, k)
        PROVE  UNCHANGED pc[p]
    BY <2>2 DEF SearchFines, Goto, TypeOK, Procs
  <2>3. CASE (Tick /\ UNCHANGED procVars) \/ UNCHANGED vars
    BY <2>3 DEF procVars, vars
  <2> QED  BY <2>1, <2>2, <2>3 DEF Next
<1> QED  BY <1>1, FineServiceTypes, PTL DEF Spec, CallsGetShorter
=============================================================================
