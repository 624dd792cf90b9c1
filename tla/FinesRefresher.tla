--------------------------- MODULE FinesRefresher ---------------------------
(***************************************************************************)
(* The fines kept in Postgres (vehicle_fines_cache), the handler that      *)
(* serves them, FleetGetVehicleFines, and the hourly goroutine that        *)
(* renews what is older than a day, runFinesCacheRefresher.                *)
(*                                                                         *)
(* A row is abstracted to the time since its fetched_at, in hours and up   *)
(* to the point where it counts as stale, and to where its fines come      *)
(* from: with ENABLE_SCRAPING a query that every real provider fails is    *)
(* answered by MockScraperProvider, last in the router's order, with an    *)
(* empty list and no error.  No transaction spans the reads and the writes. *)
(*                                                                         *)
(* Service.SearchFines, specified step by step in FineService, is one step *)
(* here: it answers from the cache or from a provider, or fails.  The two  *)
(* levels of the cache are one, an entry is whose answer it holds, and its *)
(* life (hardTTL, two minutes, against the hours of a row) is an entry     *)
(* that may go at any time; rows are one spelling of a plate each.  Redis  *)
(* keeps it when the process restarts.  The public searches share its key: *)
(* what they leave in the cache is what a handler leaves whose upsert      *)
(* fails.                                                                  *)
(***************************************************************************)
EXTENDS Naturals

CONSTANTS
  Rows,         \* (plate, source) pairs
  DeadSources,  \* rows whose providers fail for good
  Handlers,     \* goroutines that serve GET /v1/fleet/vehicles/{plate}/fines
  maxAge,       \* 24 hours
  MaxRestarts,  \* bound: restarts of the process
  Nothing       \* no row, entry or answer

ASSUME RefresherAssumption ==
  /\ DeadSources \subseteq Rows
  /\ maxAge \in Nat /\ MaxRestarts \in Nat
  /\ Nothing \notin Rows /\ Nothing \notin Nat /\ Nothing \notin {"source", "mock"}

VARIABLES
  cached,  \* whose answer the search cache holds for a row's key
  age,     \* vehicle_fines_cache: Nothing without a row, else hours since fetched_at
  origin,  \* whose answer the row's fines are
  tick,    \* the ticker's channel holds a tick
  cron,    \* where the refresher is
  todo,    \* entries of ListStaleFineCaches its loop has not reached
  entry, result,  \* the entry it is at, and whose answer it got for it
  pc, row, answer,  \* each handler: where it is, the row it was asked for,
                    \* and whose answer it got
  enableScraping,   \* cfg.EnableScraping, read when the process starts: the
                    \* mock answers when the providers fail
  restarts

table == <<age, origin>>
cronVars == <<tick, cron, todo, entry, result>>
handlerVars == <<pc, row, answer>>
processVars == <<enableScraping, restarts>>
refresherVars == <<cached, age, origin, tick, cron, todo, entry, result,
                   pc, row, answer, enableScraping, restarts>>

Origins == {"source", "mock"}

RefresherTypeOK ==
  /\ cached \in [Rows -> Origins \cup {Nothing}]
  /\ age \in [Rows -> 0 .. maxAge + 1 \cup {Nothing}]
  /\ origin \in [Rows -> Origins \cup {Nothing}]
  /\ \A k \in Rows : origin[k] = Nothing <=> age[k] = Nothing
  /\ tick \in BOOLEAN
  /\ cron \in {"sleep", "loop", "search", "upsert"}
  /\ todo \subseteq Rows
  /\ entry \in Rows \cup {Nothing}
  /\ result \in Origins \cup {Nothing}
  /\ pc \in [Handlers -> {"idle", "get", "search", "upsert"}]
  /\ row \in [Handlers -> Rows \cup {Nothing}]
  /\ answer \in [Handlers -> Origins \cup {Nothing}]
  /\ enableScraping \in BOOLEAN
  /\ restarts \in 0 .. MaxRestarts
  /\ entry = Nothing <=> cron \in {"sleep", "loop"}
  /\ result = Nothing <=> cron # "upsert"
  /\ \A h \in Handlers : /\ row[h] = Nothing <=> pc[h] = "idle"
                         /\ answer[h] = Nothing <=> pc[h] # "upsert"

(* The table is older than the process, and so may Redis's entries be. *)
RefresherInit ==
  /\ cached \in [Rows -> Origins \cup {Nothing}]
  /\ age \in [Rows -> 0 .. maxAge + 1 \cup {Nothing}]
  /\ origin \in [Rows -> Origins \cup {Nothing}]
  /\ \A k \in Rows : origin[k] = Nothing <=> age[k] = Nothing
  /\ tick = FALSE /\ cron = "sleep" /\ todo = {} /\ entry = Nothing /\ result = Nothing
  /\ pc = [h \in Handlers |-> "idle"]
  /\ row = [h \in Handlers |-> Nothing]
  /\ answer = [h \in Handlers |-> Nothing]
  /\ enableScraping \in BOOLEAN
  /\ restarts = 0

(* fetched_at < now - maxAge *)
stale(k) == age[k] # Nothing /\ age[k] > maxAge

(* INSERT ... ON CONFLICT DO UPDATE, stamped by the database. *)
UpsertFinesCache(k, from) ==
  /\ age' = [age EXCEPT ![k] = 0]
  /\ origin' = [origin EXCEPT ![k] = from]

(* Who may answer the providers' look at a row; it may fail as well. *)
Fetch(k) == (IF k \in DeadSources THEN {} ELSE {"source"})
              \cup (IF enableScraping THEN {"mock"} ELSE {})

(* A hit.  Past softTTL it leaves a refreshCache behind, whose answer, if one
   comes, is put in the cache at once here.                               *)
Hit(k, from) ==
  /\ from # Nothing /\ from = cached[k]
  /\ \/ UNCHANGED cached
     \/ \E newer \in Fetch(k) : cached' = [cached EXCEPT ![k] = newer]

(* A miss, or a read of the cache that failed; an answer may fail to be kept. *)
Miss(k, from) ==
  /\ from \in Fetch(k)
  /\ cached' = [cached EXCEPT ![k] = from] \/ UNCHANGED cached

SearchFines(k, from) == Hit(k, from) \/ Miss(k, from)

(* hardTTL goes by, or the cache loses the entry. *)
Expire(k) ==
  /\ cached[k] # Nothing
  /\ cached' = [cached EXCEPT ![k] = Nothing]
  /\ UNCHANGED <<table, cronVars, handlerVars, processVars>>

ListStaleFineCaches == {k \in Rows : stale(k)}

(* An hour goes by; a tick nobody has taken is not doubled. *)
Hour ==
  /\ age' = [k \in Rows |->
               IF age[k] = Nothing \/ stale(k) THEN age[k] ELSE age[k] + 1]
  /\ tick' = TRUE
  /\ UNCHANGED <<cached, origin, cron, todo, entry, result, handlerVars, processVars>>

-----------------------------------------------------------------------------
(* refresh(): a list that cannot be read ends the round at once. *)
RefreshStart ==
  /\ cron = "sleep" /\ tick
  /\ tick' = FALSE
  /\ \/ cron' = "loop" /\ todo' = ListStaleFineCaches
     \/ UNCHANGED <<cron, todo>>
  /\ UNCHANGED <<cached, table, entry, result, handlerVars, processVars>>

RefreshNext(k) ==
  /\ cron = "loop" /\ k \in todo
  /\ cron' = "search" /\ entry' = k /\ todo' = todo \ {k}
  /\ UNCHANGED <<cached, table, tick, result, handlerVars, processVars>>

RefreshSearchOK(from) ==
  /\ cron = "search" /\ SearchFines(entry, from)
  /\ cron' = "upsert" /\ result' = from
  /\ UNCHANGED <<table, tick, todo, entry, handlerVars, processVars>>

(* Slip: return instead of continue. *)
RefreshSearchFailedReturns ==
  /\ cron = "search"
  /\ cron' = "sleep" /\ entry' = Nothing /\ todo' = {}
  /\ UNCHANGED <<cached, table, tick, result, handlerVars, processVars>>

(* continue: the entry keeps its old row and its turn next time. *)
RefreshSearchFailed ==
  /\ cron = "search"
  /\ cron' = "loop" /\ entry' = Nothing
  /\ UNCHANGED <<cached, table, tick, todo, result, handlerVars, processVars>>

(* Slip: a row that exists is only stamped. *)
RefreshUpsertStamps ==
  /\ cron = "upsert"
  /\ age' = [age EXCEPT ![entry] = 0]
  /\ cron' = "loop" /\ entry' = Nothing /\ result' = Nothing
  /\ UNCHANGED <<cached, origin, tick, todo, handlerVars, processVars>>

RefreshUpsert ==
  /\ cron = "upsert"
  /\ UpsertFinesCache(entry, result)
  /\ cron' = "loop" /\ entry' = Nothing /\ result' = Nothing
  /\ UNCHANGED <<cached, tick, todo, handlerVars, processVars>>

RefreshUpsertFailed ==
  /\ cron = "upsert"
  /\ cron' = "loop" /\ entry' = Nothing /\ result' = Nothing
  /\ UNCHANGED <<cached, table, tick, todo, handlerVars, processVars>>

RefreshDone ==
  /\ cron = "loop" /\ todo = {}
  /\ cron' = "sleep"
  /\ UNCHANGED <<cached, table, tick, todo, entry, result, handlerVars, processVars>>

-----------------------------------------------------------------------------
Goto(h, label) == pc' = [pc EXCEPT ![h] = label]

(* FleetGetVehicleFines; force=true skips the look at the database. *)
FleetGetVehicleFines(h, k, force) ==
  /\ pc[h] = "idle"
  /\ row' = [row EXCEPT ![h] = k]
  /\ Goto(h, IF force THEN "search" ELSE "get")
  /\ UNCHANGED <<cached, table, cronVars, answer, processVars>>

Return(h) ==
  /\ Goto(h, "idle")
  /\ row' = [row EXCEPT ![h] = Nothing]
  /\ answer' = [answer EXCEPT ![h] = Nothing]

(* A row is served however old it is. *)
ServeRow(h) ==
  /\ pc[h] = "get" /\ age[row[h]] # Nothing
  /\ Return(h)
  /\ UNCHANGED <<cached, table, cronVars, processVars>>

(* No row, or a query that failed: GetFinesCache reports both as an error. *)
GetFailed(h) ==
  /\ pc[h] = "get"
  /\ Goto(h, "search")
  /\ UNCHANGED <<cached, table, row, answer, cronVars, processVars>>

SearchOK(h, from) ==
  /\ pc[h] = "search" /\ SearchFines(row[h], from)
  /\ answer' = [answer EXCEPT ![h] = from]
  /\ Goto(h, "upsert")
  /\ UNCHANGED <<table, row, cronVars, processVars>>

(* Slip: no return after the error response. *)
SearchFailedFallsThrough(h) ==
  /\ pc[h] = "search"
  /\ answer' = [answer EXCEPT ![h] = "mock"]
  /\ Goto(h, "upsert")
  /\ UNCHANGED <<cached, table, row, cronVars, processVars>>

SearchFailed(h) ==
  /\ pc[h] = "search"
  /\ Return(h)
  /\ UNCHANGED <<cached, table, cronVars, processVars>>

Upsert(h) ==
  /\ pc[h] = "upsert"
  /\ UpsertFinesCache(row[h], answer[h])
  /\ Return(h)
  /\ UNCHANGED <<cached, cronVars, processVars>>

(* The upsert's error is dropped: the caller gets its fines all the same. *)
UpsertFailed(h) ==
  /\ pc[h] = "upsert"
  /\ Return(h)
  /\ UNCHANGED <<cached, table, cronVars, processVars>>

RefreshStep ==
  \/ RefreshStart \/ RefreshDone \/ \E k \in Rows : RefreshNext(k)
  \/ \E from \in Origins : RefreshSearchOK(from)
  \/ RefreshSearchFailed \/ RefreshUpsert \/ RefreshUpsertFailed

HandlerStep(h) ==
  \/ ServeRow(h) \/ GetFailed(h) \/ \E from \in Origins : SearchOK(h, from)
  \/ SearchFailed(h) \/ Upsert(h) \/ UpsertFailed(h)

(* The process is restarted, perhaps with another setting: the table stays,
   and what Redis holds; the ticker starts anew.                          *)
Restart ==
  /\ restarts < MaxRestarts
  /\ restarts' = restarts + 1
  /\ enableScraping' \in BOOLEAN
  /\ tick' = FALSE /\ cron' = "sleep" /\ todo' = {} /\ entry' = Nothing /\ result' = Nothing
  /\ pc' = [h \in Handlers |-> "idle"]
  /\ row' = [h \in Handlers |-> Nothing]
  /\ answer' = [h \in Handlers |-> Nothing]
  /\ UNCHANGED <<cached, table>>

RefresherNext ==
  \/ Hour \/ Restart
  \/ \E k \in Rows : Expire(k)
  \/ RefreshStep
  \/ \E h \in Handlers, k \in Rows, force \in BOOLEAN : FleetGetVehicleFines(h, k, force)
  \/ \E h \in Handlers : HandlerStep(h)

RefresherSpec == RefresherInit /\ [][RefresherNext]_refresherVars

(* Time passes and the goroutine runs.  Postgres, and every source but the dead
   ones, answers again and again when it is asked again and again, and
   treats the handlers no worse than the goroutine.  A search asks the
   source when the cache holds nothing, which hits do not put off for ever:
   an entry lives two minutes, and what renews it is the source in the end. *)
FairSpec ==
  /\ RefresherSpec
  /\ WF_refresherVars(Hour) /\ WF_refresherVars(RefreshStep)
  /\ SF_refresherVars(RefreshStart /\ cron' = "loop")
  /\ \A k \in Rows \ DeadSources :
       /\ WF_refresherVars(Expire(k))
       /\ SF_refresherVars(entry = k /\ cached[k] = Nothing /\ RefreshSearchOK("source"))
       /\ SF_refresherVars(entry = k /\ result = "source" /\ RefreshUpsert)
       /\ \A h \in Handlers :
            /\ SF_refresherVars(row[h] = k /\ cached[k] = Nothing /\ SearchOK(h, "source"))
            /\ SF_refresherVars(row[h] = k /\ answer[h] = "source" /\ Upsert(h))

-----------------------------------------------------------------------------
(* "Stale entries are refreshed by the background cron": a stale row whose
   source answers is renewed in the end, whatever becomes of the others.  *)
StaleRowsAreRefreshed ==
  \A k \in Rows \ DeadSources : stale(k) ~> ~stale(k)

(* The answers for a row that the cache or a search under way holds. *)
Held(k) == {cached[k], IF entry = k THEN result ELSE Nothing}
             \cup {answer[h] : h \in {g \in Handlers : row[g] = k}}

(* Without the mock no failure, and no restart, costs a row or its fines, and
   what a source that fails has left behind is never passed off as fetched
   again; but for the answers Redis has kept from the process before, for
   two minutes: once none of them is left, neither in the cache nor in a
   search under way, none comes back.                                     *)
RowsSurviveFailures ==
  [][~enableScraping =>
       \A k \in Rows :
         /\ age[k] # Nothing => age'[k] # Nothing
         /\ "mock" \notin Held(k) =>
              "mock" \notin Held(k)' /\ origin'[k] \in {origin[k], "source"}
         /\ k \in DeadSources /\ Held(k) = {Nothing} =>
              /\ Held(k)' = {Nothing}
              /\ age[k] # Nothing => age'[k] >= age[k]]_refresherVars

(* With the mock an outage leaves an empty list in place of a row's fines; the
   cron does not leave it there once the source answers again, although
   the placeholder itself counts as fresh for a day and a copy of it may
   answer the search that is to replace it.                               *)
PlaceholderIsReplaced ==
  \A k \in Rows \ DeadSources : origin[k] = "mock" ~> origin[k] = "source"
=============================================================================
