---------------------------- MODULE VehicleProfile ----------------------------
(***************************************************************************)
(* core.VehicleProfileService over providers.VehicleProfileRouter and      *)
(* vehicledb.SQLiteStore: a profile is looked up in SQLite, and on a miss  *)
(* the providers are asked in priority order; what the first of them that  *)
(* knows the vehicle says is saved under the plate it names.               *)
(*                                                                         *)
(* There is no lock, no single flight and no expiry: searches meet only in *)
(* the table, and a search that was on its way when a row appeared may     *)
(* still replace it.  A profile is the plate on it and what it says.       *)
(***************************************************************************)
EXTENDS Naturals, Sequences

CONSTANTS
  Requests,     \* GET .../vehicle-profile requests that run at a time
  Plates,       \* plates isValidPlate accepts, normalised
  Odd,          \* a plate it does not accept, such as one with a space in it
  Facts,        \* what a provider may say of a vehicle
  MockFacts,    \* what the mock says
  MockKnows,    \* the plates the mock knows
  Routers,      \* the sequences of providers a start may wire, by priority
  MaxRestarts,  \* bound on restarts
  None

Profiles == [plate : Plates \cup {Odd}, says : Facts \cup {MockFacts}]

ASSUME VehicleProfileAssumption ==
  /\ Odd \notin Plates /\ MockKnows \subseteq Plates
  /\ None \notin Plates \cup {Odd} \cup Facts \cup {MockFacts} \cup Profiles
  /\ Routers \subseteq Seq({"http", "carsxe", "mock"})
  /\ MaxRestarts \in Nat

VARIABLES
  rows,      \* vehicle_profiles: what is saved under each plate
  store,     \* whether SQLite could be opened at the start
  wired,     \* VehicleProfileRouter.providers
  restarts,  \* how often the process was started again
  pc,        \* where each request is
  asked,     \* the normalised plate it is about
  at,        \* the provider it has come to
  firstErr,  \* the first error of a provider, None before there is one
  found,     \* the profile a provider has given it
  status,    \* the HTTP status it was answered with
  look,      \* history: how its look at the table went
  known      \* history: whether the plate had a row when it began

tableVars == <<rows, store, wired, restarts>>
requestVars == <<pc, asked, at, firstErr, found, status, look, known>>
vars == <<rows, store, wired, restarts, pc, asked, at, firstErr, found, status,
          look, known>>

(* mapError: the status of each core.ErrorCode that a search ends with. *)
mapError == [invalid_plate |-> 400, not_found |-> 404,
             provider_failed |-> 502, provider_timeout |-> 504]

TypeOK ==
  /\ rows \in [Plates \cup {Odd} -> Profiles \cup {None}]
  /\ store \in BOOLEAN /\ wired \in Routers /\ restarts \in 0 .. MaxRestarts
  /\ pc \in [Requests -> {"idle", "get", "call", "save"}]
  /\ asked \in [Requests -> Plates \cup {None}]
  /\ \A c \in Requests : at[c] \in 1 .. Len(wired) + 1
  /\ firstErr \in [Requests -> DOMAIN mapError \cup {None}]
  /\ found \in [Requests -> Profiles \cup {None}]
  /\ status \in [Requests -> {0, 200, 400, 404, 502, 504}]
  /\ look \in [Requests -> {"none", "hit", "miss", "failed"}]
  /\ known \in [Requests -> BOOLEAN]

Init ==
  /\ rows = [p \in Plates \cup {Odd} |-> None]
  /\ store \in BOOLEAN
  /\ wired \in Routers
  /\ restarts = 0
  /\ pc = [c \in Requests |-> "idle"]
  /\ asked = [c \in Requests |-> None]
  /\ at = [c \in Requests |-> 1]
  /\ firstErr = [c \in Requests |-> None]
  /\ found = [c \in Requests |-> None]
  /\ status = [c \in Requests |-> 0]
  /\ look = [c \in Requests |-> "none"]
  /\ known = [c \in Requests |-> FALSE]

-----------------------------------------------------------------------------
(* The handler has its answer; what it was about is kept for the properties. *)
answer(c, code) ==
  /\ pc' = [pc EXCEPT ![c] = "idle"]
  /\ at' = [at EXCEPT ![c] = 1]
  /\ firstErr' = [firstErr EXCEPT ![c] = None]
  /\ found' = [found EXCEPT ![c] = None]
  /\ status' = [status EXCEPT ![c] = code]

(* A request for a plate that isValidPlate refuses, or for none. *)
SearchInvalid(c) ==
  /\ pc[c] = "idle"
  /\ answer(c, mapError["invalid_plate"])
  /\ asked' = [asked EXCEPT ![c] = None]
  /\ look' = [look EXCEPT ![c] = "none"]
  /\ known' = [known EXCEPT ![c] = FALSE]
  /\ UNCHANGED tableVars

SearchByPlate(c, p) ==
  /\ pc[c] = "idle"
  /\ pc' = [pc EXCEPT ![c] = IF store THEN "get" ELSE "call"]
  /\ asked' = [asked EXCEPT ![c] = p]
  /\ status' = [status EXCEPT ![c] = 0]
  /\ look' = [look EXCEPT ![c] = "none"]
  /\ known' = [known EXCEPT ![c] = store /\ rows[p] # None]
  /\ UNCHANGED <<tableVars, at, firstErr, found>>

Get(c) ==
  /\ pc[c] = "get"
  /\ IF rows[asked[c]] # None
       THEN /\ answer(c, 200)
            /\ look' = [look EXCEPT ![c] = "hit"]
       ELSE /\ pc' = [pc EXCEPT ![c] = "call"]
            /\ look' = [look EXCEPT ![c] = "miss"]
            /\ UNCHANGED <<at, firstErr, found, status>>
  /\ UNCHANGED <<tableVars, asked, known>>

(* SQLite fails, or the client has hung up: the search goes on without. *)
GetFails(c) ==
  /\ pc[c] = "get"
  /\ pc' = [pc EXCEPT ![c] = "call"]
  /\ look' = [look EXCEPT ![c] = "failed"]
  /\ UNCHANGED <<tableVars, asked, at, firstErr, found, status, known>>

provider(c) == wired[at[c]]

(* Slip: what the mock says is not worth a row. *)
acceptUnmocked(c, profile) ==
  IF store /\ profile.says # MockFacts
    THEN /\ pc' = [pc EXCEPT ![c] = "save"]
         /\ found' = [found EXCEPT ![c] = profile]
         /\ UNCHANGED <<at, firstErr, status>>
    ELSE answer(c, 200)

(* SearchByPlate has a profile from provider(c).  One without make, model,
   year and type is nothing found, and ends the search all the same.      *)
accept(c, profile) ==
  IF store
    THEN /\ pc' = [pc EXCEPT ![c] = "save"]
         /\ found' = [found EXCEPT ![c] = profile]
         /\ UNCHANGED <<at, firstErr, status>>
    ELSE answer(c, 200)

(* FetchVehicleProfile of the HTTP provider knows the vehicle.  The answer may
   name a plate of its own, and is about the asked one if it names none.  *)
HTTPAnswers(c) ==
  /\ pc[c] = "call" /\ at[c] <= Len(wired) /\ provider(c) = "http"
  /\ \E named \in Plates \cup {Odd}, f \in Facts :
       accept(c, [plate |-> named, says |-> f])
  /\ UNCHANGED <<tableVars, asked, look, known>>

(* CarsXE copies the asked plate. *)
CarsXEAnswers(c) ==
  /\ pc[c] = "call" /\ at[c] <= Len(wired) /\ provider(c) = "carsxe"
  /\ \E f \in Facts : accept(c, [plate |-> asked[c], says |-> f])
  /\ UNCHANGED <<tableVars, asked, look, known>>

(* CarsXE looks at make and model before they are trimmed: blanks pass for a
   profile there, which the service then finds empty.                     *)
CarsXEAnswersBlank(c) ==
  /\ pc[c] = "call" /\ at[c] <= Len(wired) /\ provider(c) = "carsxe"
  /\ answer(c, mapError["not_found"])
  /\ UNCHANGED <<tableVars, asked, look, known>>

MockAnswers(c) ==
  /\ pc[c] = "call" /\ at[c] <= Len(wired) /\ provider(c) = "mock"
  /\ asked[c] \in MockKnows
  /\ accept(c, [plate |-> asked[c], says |-> MockFacts])
  /\ UNCHANGED <<tableVars, asked, look, known>>

(* A provider fails, takes longer than the router lets it, or does not know
   the vehicle; the mock only the last, for what it does not know.        *)
ProviderFails(c) ==
  /\ pc[c] = "call" /\ at[c] <= Len(wired)
  /\ \E err \in IF provider(c) = "mock" THEN {"not_found"}
                ELSE DOMAIN mapError \ {"invalid_plate"} :
       firstErr' = [firstErr EXCEPT ![c] = IF @ = None THEN err ELSE @]
  /\ provider(c) = "mock" => asked[c] \notin MockKnows
  /\ at' = [at EXCEPT ![c] = @ + 1]
  /\ UNCHANGED <<tableVars, pc, asked, found, status, look, known>>

NobodyKnows(c) ==
  /\ pc[c] = "call" /\ at[c] = Len(wired) + 1
  /\ answer(c, mapError[IF firstErr[c] = None THEN "not_found" ELSE firstErr[c]])
  /\ UNCHANGED <<tableVars, asked, look, known>>

(* Slip: a row is saved under the plate that was asked for, and one that no
   longer fits the provider's is taken out.                               *)
SaveAndPurge(c) ==
  /\ pc[c] = "save"
  /\ rows' = [p \in Plates \cup {Odd} |->
                IF p = found[c].plate THEN found[c]
                ELSE IF p = asked[c] THEN None ELSE rows[p]]
  /\ answer(c, 200)
  /\ UNCHANGED <<store, wired, restarts, asked, look, known>>

(* INSERT OR REPLACE under the plate the provider named. *)
Save(c) ==
  /\ pc[c] = "save"
  /\ rows' = [rows EXCEPT ![found[c].plate] = found[c]]
  /\ answer(c, 200)
  /\ UNCHANGED <<store, wired, restarts, asked, look, known>>

(* The error of Save is dropped: the client has its answer, the table has not. *)
SaveFails(c) ==
  /\ pc[c] = "save"
  /\ answer(c, 200)
  /\ UNCHANGED <<tableVars, asked, look, known>>

(* The process stops and starts: requests are gone, the file is not.  Its
   settings may have changed, and SQLite may open or not.                 *)
Restart ==
  /\ restarts < MaxRestarts
  /\ restarts' = restarts + 1
  /\ store' \in BOOLEAN /\ wired' \in Routers
  /\ pc' = [c \in Requests |-> "idle"]
  /\ asked' = [c \in Requests |-> None]
  /\ at' = [c \in Requests |-> 1]
  /\ firstErr' = [c \in Requests |-> None]
  /\ found' = [c \in Requests |-> None]
  /\ status' = [c \in Requests |-> 0]
  /\ look' = [c \in Requests |-> "none"]
  /\ known' = [c \in Requests |-> FALSE]
  /\ UNCHANGED rows

Step(c) ==
  \/ Get(c) \/ GetFails(c)
  \/ HTTPAnswers(c) \/ CarsXEAnswers(c) \/ CarsXEAnswersBlank(c)
  \/ MockAnswers(c) \/ ProviderFails(c) \/ NobodyKnows(c)
  \/ Save(c) \/ SaveFails(c)

Next ==
  \/ Restart
  \/ \E c \in Requests : SearchInvalid(c) \/ Step(c)
  \/ \E c \in Requests, p \in Plates : SearchByPlate(c, p)

Spec == Init /\ [][Next]_vars

(* A search goes on: the router bounds each provider call (timeout), SQLite
   returns.  A store that is asked again and again works again and again. *)
saves(c, p) == found[c] # None /\ found[c].plate = p /\ Save(c)

FairSpec ==
  /\ Spec
  /\ \A c \in Requests : WF_vars(Step(c))
  /\ \A c \in Requests, p \in Plates : SF_vars(saves(c, p))

-----------------------------------------------------------------------------
(* Once a plate has a row, a search that begins afterwards needs no provider:
   it is answered though all of them fail, after a restart too, whatever other
   searches save meanwhile; only a failed look at SQLite can undo this.  The
   table is all the service has against its providers' outages.           *)
KnownSurvivesOutage ==
  \A c \in Requests :
    known[c] => \/ pc[c] = "get" \/ look[c] = "failed"
                \/ look[c] = "hit" /\ status[c] = 200

(* A vehicle the mock knows, searched for again and again by a process that is
   wired as main.go wires it, gets its row in the end: a look or a save that
   fails, requests that end early and restarts only put it off.           *)
deployedAsks(p) ==
  /\ store /\ wired = <<"mock">>
  /\ \E c \in Requests : asked[c] = p /\ pc[c] = "get"

SearchedIsLearned ==
  \A p \in MockKnows : []<>deployedAsks(p) => <>(rows[p] # None)
=============================================================================
