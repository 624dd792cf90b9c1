----------------------------- MODULE SingleFlight -----------------------------
(***************************************************************************)
(* What core.Service.doSingleFlight promises its callers, without the map, *)
(* the mutex, the channel or the call objects it is made of: for each key  *)
(* at most one computation runs at a time, and everybody who came for the  *)
(* key while it ran leaves with its result.  A finished computation is     *)
(* still handed to late comers until the goroutine that ran it retires it. *)
(***************************************************************************)
CONSTANTS
  Keys,     \* what can be computed
  Procs,    \* goroutines
  Results,  \* outcomes of a computation, failures included
  None      \* neither a key nor a result

VARIABLES
  running,  \* keys whose computation is going on
  last,     \* finished result that has not been retired, by key
  wants,    \* the key each goroutine has come for
  got       \* the result each goroutine will leave with

flightVars == <<running, last, wants, got>>

FlightInit ==
  /\ running = {}
  /\ last = [k \in Keys |-> None]
  /\ wants = [p \in Procs |-> None]
  /\ got = [p \in Procs |-> None]

Start(p, k) ==
  /\ wants[p] = None
  /\ k \notin running /\ last[k] = None
  /\ running' = running \cup {k}
  /\ wants' = [wants EXCEPT ![p] = k]
  /\ UNCHANGED <<last, got>>

Join(p, k) ==
  /\ wants[p] = None
  /\ k \in running
  /\ wants' = [wants EXCEPT ![p] = k]
  /\ UNCHANGED <<running, last, got>>

JoinLate(p, k) ==
  /\ wants[p] = None
  /\ last[k] # None
  /\ wants' = [wants EXCEPT ![p] = k]
  /\ got' = [got EXCEPT ![p] = last[k]]
  /\ UNCHANGED <<running, last>>

Finish(k, r) ==
  /\ k \in running
  /\ running' = running \ {k}
  /\ last' = [last EXCEPT ![k] = r]
  /\ got' = [p \in Procs |->
               IF wants[p] = k /\ got[p] = None THEN r ELSE got[p]]
  /\ UNCHANGED wants

Leave(p) ==
  /\ got[p] # None
  /\ wants' = [wants EXCEPT ![p] = None]
  /\ got' = [got EXCEPT ![p] = None]

Return(p) ==
  /\ Leave(p)
  /\ UNCHANGED <<running, last>>

Retire(p, k) ==
  /\ wants[p] = k
  /\ last[k] # None
  /\ last' = [last EXCEPT ![k] = None]
  /\ Leave(p)
  /\ UNCHANGED running

FlightNext ==
  \/ \E p \in Procs : Return(p)
  \/ \E p \in Procs, k \in Keys :
       Start(p, k) \/ Join(p, k) \/ JoinLate(p, k) \/ Retire(p, k)
  \/ \E k \in Keys, r \in Results : Finish(k, r)

FlightSpec == FlightInit /\ [][FlightNext]_flightVars
=============================================================================
