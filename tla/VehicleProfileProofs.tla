------------------------- MODULE VehicleProfileProofs -------------------------
(***************************************************************************)
(* KnownSurvivesOutage for any requests, plates, facts and routers.        *)
(*                                                                         *)
(* A search that began with a row finds one when it looks: nobody takes a  *)
(* row out, and what replaces it is a profile.  What it finds it answers   *)
(* with at once, and no later step of its own changes the answer.          *)
(* At the end, that a search stays within the router's list.               *)
(***************************************************************************)
EXTENDS VehicleProfile, TLAPS

Places == {"idle", "get", "call", "save"}

ProfileTypes ==
  /\ rows \in [Plates \cup {Odd} -> Profiles \cup {None}]
  /\ pc \in [Requests -> Places]
  /\ asked \in [Requests -> Plates \cup {None}]
  /\ found \in [Requests -> Profiles \cup {None}]
  /\ status = [c \in Requests |-> status[c]]
  /\ look \in [Requests -> {"none", "hit", "miss", "failed"}]
  /\ known \in [Requests -> BOOLEAN]

(* Who looks, calls or saves has a plate; who saves has a profile. *)
InHand(c) ==
  /\ pc[c] # "idle" => asked[c] \in Plates
  /\ pc[c] = "save" => found[c] \in Profiles

Waits(c) == pc[c] = "get" /\ rows[asked[c]] # None
Served(c) == pc[c] = "idle" /\ look[c] = "hit" /\ status[c] = 200
Unlucky(c) == pc[c] # "get" /\ look[c] = "failed"

ProfileInv ==
  /\ ProfileTypes
  /\ \A c \in Requests : InHand(c)
  /\ \A c \in Requests : known[c] => Waits(c) \/ Served(c) \/ Unlucky(c)

USE DEF Places

-----------------------------------------------------------------------------
(* A start has no searches. *)
LEMMA InitProfile == Init => ProfileInv
  BY DEF Init, ProfileInv, ProfileTypes, InHand

(* A row stays a row, whatever is saved. *)
LEMMA RowsStay ==
  ASSUME ProfileInv, [Next]_vars, NEW p \in Plates \cup {Odd}, rows[p] # None
  PROVE  rows'[p] # None
<1>1. ASSUME NEW c \in Requests, Save(c)
      PROVE  rows'[p] # None
  <2>1. found[c] \in Profiles
    BY <1>1 DEF Save, ProfileInv, InHand
  <2>2. found[c] # None /\ found[c].plate \in Plates \cup {Odd}
    BY <2>1, VehicleProfileAssumption DEF VehicleProfileAssumption, Profiles
  <2>3. rows' = [rows EXCEPT ![found[c].plate] = found[c]]
    BY <1>1 DEF Save
  <2>. QED  BY <2>2, <2>3 DEF ProfileInv, ProfileTypes
<1>2. UNCHANGED rows => rows'[p] # None
  OBVIOUS
<1>3. Restart => UNCHANGED rows
  BY DEF Restart
<1>4. ASSUME NEW c \in Requests
      PROVE  /\ SearchInvalid(c) => UNCHANGED rows
             /\ \A q \in Plates : SearchByPlate(c, q) => UNCHANGED rows
             /\ Get(c) \/ GetFails(c) \/ NobodyKnows(c) \/ ProviderFails(c)
                  => UNCHANGED rows
             /\ HTTPAnswers(c) \/ CarsXEAnswers(c) \/ CarsXEAnswersBlank(c)
                  \/ MockAnswers(c) \/ SaveFails(c) => UNCHANGED rows
  BY DEF tableVars, SearchInvalid, SearchByPlate, Get, GetFails, NobodyKnows,
         ProviderFails, HTTPAnswers, CarsXEAnswers, CarsXEAnswersBlank,
         MockAnswers, SaveFails
<1>5. UNCHANGED vars => UNCHANGED rows
  BY DEF vars
<1>. QED  BY <1>1, <1>2, <1>3, <1>4, <1>5 DEF Next, Step

-----------------------------------------------------------------------------
(* What a step of c leaves alone of the other requests, and the little it
   has to keep of its own: it ends, or goes on with a plate in hand.      *)
Others(c) ==
  \A d \in Requests \ {c} :
    /\ pc'[d] = pc[d] /\ asked'[d] = asked[d] /\ found'[d] = found[d]
    /\ status'[d] = status[d] /\ look'[d] = look[d] /\ known'[d] = known[d]

Own(c) ==
  /\ InHand(c)'
  /\ known'[c] => Waits(c)' \/ Served(c)' \/ Unlucky(c)'

LEMMA StepIsLocal ==
  ASSUME ProfileInv, [Next]_vars, ProfileTypes', NEW c \in Requests,
         Others(c), Own(c)
  PROVE  ProfileInv'
<1>1. ASSUME NEW d \in Requests \ {c}
      PROVE  InHand(d)' /\ (known'[d] => Waits(d)' \/ Served(d)' \/ Unlucky(d)')
  <2>1. InHand(d)' /\ (Served(d) => Served(d)') /\ (Unlucky(d) => Unlucky(d)')
    BY <1>1 DEF Others, ProfileInv, InHand, Served, Unlucky
  <2>2. Waits(d) => Waits(d)'
    BY <1>1, RowsStay DEF Others, ProfileInv, InHand, Waits
  <2>. QED  BY <1>1, <2>1, <2>2 DEF Others, ProfileInv
<1>. QED  BY <1>1 DEF Own, ProfileInv

(* answer leaves the request with nothing in hand. *)
LEMMA NextProfile == ProfileInv /\ [Next]_vars => ProfileInv'
<1>. SUFFICES ASSUME ProfileInv, [Next]_vars
              PROVE  ProfileInv'
  OBVIOUS
<1>. USE DEF ProfileTypes, InHand, Waits, Served, Unlucky, Others, Own, answer
<1>1. CASE Restart
  BY <1>1 DEF Restart, ProfileInv
<1>2. ASSUME NEW c \in Requests, SearchInvalid(c)
      PROVE  ProfileInv'
  <2>1. ProfileTypes'
    BY <1>2 DEF SearchInvalid, tableVars, ProfileInv
  <2>2. Others(c) /\ Own(c)
    BY <1>2 DEF SearchInvalid, tableVars, ProfileInv
  <2>. QED  BY <2>1, <2>2, StepIsLocal
<1>3. ASSUME NEW c \in Requests, NEW p \in Plates, SearchByPlate(c, p)
      PROVE  ProfileInv'
  <2>1. ProfileTypes'
    BY <1>3 DEF SearchByPlate, tableVars, ProfileInv
  <2>2. Others(c) /\ Own(c)
    BY <1>3 DEF SearchByPlate, tableVars, ProfileInv
  <2>. QED  BY <2>1, <2>2, StepIsLocal
<1>4. ASSUME NEW c \in Requests, Get(c)
      PROVE  ProfileInv'
  <2>1. ProfileTypes'
    BY <1>4 DEF Get, tableVars, ProfileInv
  <2>2. Others(c) /\ Own(c)
    BY <1>4 DEF Get, tableVars, ProfileInv
  <2>. QED  BY <2>1, <2>2, StepIsLocal
<1>5. ASSUME NEW c \in Requests, GetFails(c)
      PROVE  ProfileInv'
  <2>1. ProfileTypes'
    BY <1>5 DEF GetFails, tableVars, ProfileInv
  <2>2. Others(c) /\ Own(c)
    BY <1>5 DEF GetFails, tableVars, ProfileInv
  <2>. QED  BY <2>1, <2>2, StepIsLocal
<1>accept. ASSUME NEW c \in Requests, NEW profile \in Profiles, pc[c] = "call",
                  accept(c, profile), UNCHANGED <<tableVars, asked, look, known>>
           PROVE  ProfileInv'
  <2>1. ProfileTypes'
    BY <1>accept DEF accept, tableVars, ProfileInv
  <2>2. Others(c) /\ Own(c)
    BY <1>accept DEF accept, tableVars, ProfileInv
  <2>. QED  BY <2>1, <2>2, StepIsLocal
<1>6. ASSUME NEW c \in Requests, HTTPAnswers(c) \/ CarsXEAnswers(c) \/ MockAnswers(c)
      PROVE  ProfileInv'
  <2>1. pc[c] = "call" /\ asked[c] \in Plates
        /\ UNCHANGED <<tableVars, asked, look, known>>
    BY <1>6 DEF HTTPAnswers, CarsXEAnswers, MockAnswers, ProfileInv
  <2>2. \E profile \in Profiles : accept(c, profile)
    <3>1. HTTPAnswers(c) => \E profile \in Profiles : accept(c, profile)
      BY DEF HTTPAnswers, Profiles
    <3>2. CarsXEAnswers(c) => \E profile \in Profiles : accept(c, profile)
      BY <2>1 DEF CarsXEAnswers, Profiles
    <3>3. MockAnswers(c) => \E profile \in Profiles : accept(c, profile)
      BY <2>1 DEF MockAnswers, Profiles
    <3>. QED  BY <1>6, <3>1, <3>2, <3>3
  <2>. QED  BY <2>1, <2>2, <1>accept
<1>7. ASSUME NEW c \in Requests, CarsXEAnswersBlank(c) \/ NobodyKnows(c) \/ SaveFails(c)
      PROVE  ProfileInv'
  <2>1. /\ pc[c] \in {"call", "save"}
        /\ \E code : answer(c, code)
        /\ UNCHANGED <<tableVars, asked, look, known>>
    BY <1>7 DEF CarsXEAnswersBlank, NobodyKnows, SaveFails
  <2>2. ProfileTypes'
    BY <2>1 DEF tableVars, ProfileInv
  <2>3. Others(c) /\ Own(c)
    BY <2>1 DEF tableVars, ProfileInv
  <2>. QED  BY <2>2, <2>3, StepIsLocal
<1>8. ASSUME NEW c \in Requests, ProviderFails(c)
      PROVE  ProfileInv'
  <2>1. pc[c] = "call" /\ UNCHANGED <<tableVars, pc, asked, found, status, look, known>>
    BY <1>8 DEF ProviderFails
  <2>2. ProfileTypes' /\ Others(c) /\ Own(c)
    BY <2>1 DEF tableVars, ProfileInv
  <2>. QED  BY <2>2, StepIsLocal
<1>9. ASSUME NEW c \in Requests, Save(c)
      PROVE  ProfileInv'
  <2>1. ProfileTypes'
    BY <1>9 DEF Save, ProfileInv
  <2>2. Others(c) /\ Own(c)
    BY <1>9 DEF Save, ProfileInv
  <2>. QED  BY <2>1, <2>2, StepIsLocal
<1>10. CASE UNCHANGED vars
  BY <1>10 DEF vars, ProfileInv
<1>. QED  BY <1>1, <1>2, <1>3, <1>4, <1>5, <1>6, <1>7, <1>8, <1>9, <1>10 DEF Next, Step

(* A search has its plate and profile in hand, and one that began with a row
   still has it, was answered from it, or could not look.                 *)
THEOREM ProfileInvHolds == Spec => []ProfileInv
  BY InitProfile, NextProfile, PTL DEF Spec

(* VehicleProfileService.SearchByPlate needs no provider for a plate that had
   a row when the search began, for any number of searches, whatever plates
   the providers name, and across any restarts.                           *)
THEOREM KnownPlatesAreServed == Spec => []KnownSurvivesOutage
<1>1. ProfileInv => KnownSurvivesOutage
  BY DEF ProfileInv, Waits, Served, Unlucky, KnownSurvivesOutage
<1>. QED  BY <1>1, ProfileInvHolds, PTL

-----------------------------------------------------------------------------
(* Type correctness: what ProfileInv does not say of a request's walk through
   the providers.                                                         *)
WalkTypes ==
  /\ store \in BOOLEAN /\ wired \in Routers /\ restarts \in 0 .. MaxRestarts
  /\ at \in [Requests -> Nat]
  /\ \A c \in Requests : at[c] \in 1 .. Len(wired) + 1
  /\ firstErr \in [Requests -> DOMAIN mapError \cup {None}]
  /\ status \in [Requests -> {0, 200, 400, 404, 502, 504}]

(* The statuses of the errors. *)
LEMMA Mapped ==
  /\ DOMAIN mapError = {"invalid_plate", "not_found", "provider_failed", "provider_timeout"}
  /\ \A err \in DOMAIN mapError : mapError[err] \in {400, 404, 502, 504}
  BY DEF mapError

(* A router is a finite sequence of providers. *)
LEMMA RouterLength == WalkTypes => Len(wired) \in Nat
  BY VehicleProfileAssumption DEF VehicleProfileAssumption, WalkTypes

(* An answer leaves the request at the start, with a status of the service's. *)
LEMMA AnswerTypes ==
  ASSUME WalkTypes, NEW c \in Requests, NEW code \in {0, 200, 400, 404, 502, 504},
         answer(c, code), UNCHANGED <<store, wired, restarts>>
  PROVE  WalkTypes'
<1>1. at' \in [Requests -> Nat] /\ \A d \in Requests : at'[d] \in 1 .. Len(wired') + 1
  BY RouterLength DEF WalkTypes, answer
<1>2. /\ firstErr' \in [Requests -> DOMAIN mapError \cup {None}]
      /\ status' \in [Requests -> {0, 200, 400, 404, 502, 504}]
  BY DEF WalkTypes, answer
<1> QED  BY <1>1, <1>2 DEF WalkTypes

(* What leaves the walk of every request where it is. *)
LEMMA WalkStays ==
  WalkTypes /\ UNCHANGED <<store, wired, restarts, at, firstErr, status>> => WalkTypes'
  BY DEF WalkTypes

(* Every step keeps the types of the walk. *)
LEMMA NextWalk ==
  ASSUME ProfileInv, WalkTypes, [Next]_vars
  PROVE  WalkTypes'
<1> USE DEF tableVars
<1>1. CASE Restart
  <2>1. wired' \in Routers /\ Len(wired') \in Nat
    BY <1>1, VehicleProfileAssumption DEF Restart, VehicleProfileAssumption
  <2>2. restarts' \in 0 .. MaxRestarts
    BY <1>1, VehicleProfileAssumption DEF Restart, VehicleProfileAssumption, WalkTypes
  <2> QED  BY <1>1, <2>1, <2>2 DEF Restart, WalkTypes
<1>2. ASSUME NEW c \in Requests, SearchInvalid(c)
      PROVE  WalkTypes'
  <2>1. mapError["invalid_plate"] \in {0, 200, 400, 404, 502, 504}
    BY Mapped
  <2> QED  BY <1>2, <2>1, AnswerTypes DEF SearchInvalid
<1>3. ASSUME NEW c \in Requests, NEW p \in Plates, SearchByPlate(c, p)
      PROVE  WalkTypes'
  BY <1>3 DEF SearchByPlate, WalkTypes
<1>4. ASSUME NEW c \in Requests, Get(c)
      PROVE  WalkTypes'
  <2>1. CASE answer(c, 200)
    BY <1>4, <2>1, AnswerTypes DEF Get
  <2>2. CASE UNCHANGED <<at, firstErr, found, status>>
    BY <1>4, <2>2, WalkStays DEF Get
  <2> QED  BY <1>4, <2>1, <2>2 DEF Get
<1>5. ASSUME NEW c \in Requests, GetFails(c)
      PROVE  WalkTypes'
  BY <1>5, WalkStays DEF GetFails
<1>6. ASSUME NEW c \in Requests, NEW profile, accept(c, profile), UNCHANGED tableVars
      PROVE  WalkTypes'
  BY <1>6, AnswerTypes, WalkStays DEF accept
<1>7. ASSUME NEW c \in Requests, HTTPAnswers(c) \/ CarsXEAnswers(c) \/ MockAnswers(c)
      PROVE  WalkTypes'
  <2>1. UNCHANGED tableVars /\ \E profile : accept(c, profile)
    BY <1>7 DEF HTTPAnswers, CarsXEAnswers, MockAnswers
  <2> QED  BY <2>1, <1>6
<1>8. ASSUME NEW c \in Requests, CarsXEAnswersBlank(c)
      PROVE  WalkTypes'
  <2>1. mapError["not_found"] \in {0, 200, 400, 404, 502, 504}
    BY Mapped
  <2> QED  BY <1>8, <2>1, AnswerTypes DEF CarsXEAnswersBlank
<1>9. ASSUME NEW c \in Requests, ProviderFails(c)
      PROVE  WalkTypes'
  <2>1. PICK err \in IF provider(c) = "mock" THEN {"not_found"}
                     ELSE DOMAIN mapError \ {"invalid_plate"} :
          firstErr' = [firstErr EXCEPT ![c] = IF @ = None THEN err ELSE @]
    BY <1>9 DEF ProviderFails
  <2>2. err \in DOMAIN mapError
    BY <2>1, Mapped
  <2>3. firstErr' \in [Requests -> DOMAIN mapError \cup {None}]
    BY <2>1, <2>2 DEF WalkTypes
  <2>4. /\ at[c] <= Len(wired) /\ at' = [at EXCEPT ![c] = @ + 1]
        /\ UNCHANGED <<store, wired, restarts, status>>
    BY <1>9 DEF ProviderFails
  <2>5. at' \in [Requests -> Nat] /\ \A d \in Requests : at'[d] \in 1 .. Len(wired') + 1
    BY <2>4, RouterLength DEF WalkTypes
  <2> QED  BY <2>3, <2>4, <2>5 DEF WalkTypes
<1>10. ASSUME NEW c \in Requests, NobodyKnows(c)
       PROVE  WalkTypes'
  <2> DEFINE err == IF firstErr[c] = None THEN "not_found" ELSE firstErr[c]
  <2>1. err \in DOMAIN mapError
    BY Mapped DEF WalkTypes
  <2>2. mapError[err] \in {0, 200, 400, 404, 502, 504}
    BY <2>1, Mapped
  <2>3. answer(c, mapError[err]) /\ UNCHANGED <<store, wired, restarts>>
    BY <1>10 DEF NobodyKnows
  <2> QED  BY <2>2, <2>3, AnswerTypes
<1>11. ASSUME NEW c \in Requests, Save(c) \/ SaveFails(c)
       PROVE  WalkTypes'
  BY <1>11, AnswerTypes DEF Save, SaveFails
<1>12. CASE UNCHANGED vars
  BY <1>12, WalkStays DEF vars
<1> QED
  BY <1>1, <1>2, <1>3, <1>4, <1>5, <1>7, <1>8, <1>9, <1>10, <1>11, <1>12 DEF Next, Step

(* Type correctness: a walk through the providers never runs past the router's
   list, across the restarts that change it too, and what a search ends with
   has a status.                                                          *)
THEOREM VehicleProfileTypes == Spec => []TypeOK
<1>1. Init => WalkTypes
  <2> SUFFICES ASSUME Init PROVE WalkTypes
    OBVIOUS
  <2>1. Len(wired) \in Nat /\ MaxRestarts \in Nat
    BY VehicleProfileAssumption DEF Init, VehicleProfileAssumption
  <2>2. at \in [Requests -> Nat] /\ \A c \in Requests : at[c] \in 1 .. Len(wired) + 1
    BY <2>1 DEF Init
  <2>3. restarts \in 0 .. MaxRestarts
    BY <2>1 DEF Init
  <2>4. /\ firstErr \in [Requests -> DOMAIN mapError \cup {None}]
        /\ status \in [Requests -> {0, 200, 400, 404, 502, 504}]
    BY DEF Init
  <2>5. store \in BOOLEAN /\ wired \in Routers
    BY DEF Init
  <2> QED  BY <2>2, <2>3, <2>4, <2>5 DEF WalkTypes
<1>2. ProfileInv /\ WalkTypes /\ [Next]_vars => WalkTypes'
  BY NextWalk
<1>3. ProfileInv /\ WalkTypes => TypeOK
  BY DEF ProfileInv, ProfileTypes, WalkTypes, TypeOK, Places
<1> QED  BY <1>1, <1>2, <1>3, ProfileInvHolds, PTL DEF Spec
=============================================================================
