---------------------------- MODULE FleetRecords ----------------------------
(***************************************************************************)
(* The vehicles of an organization and the records kept by plate:          *)
(* maintenance and fuel (internal/storage/postgres/store.go, with the      *)
(* handlers of fleet_handlers.go and modules_handlers.go).  The plate is   *)
(* the only thing that ties a record to a vehicle, there is no foreign     *)
(* key, so what matters is how each handler spells the plate it was sent:  *)
(* adding a vehicle drops "-" and " " and upper-cases, every other write   *)
(* upper-cases only.                                                       *)
(*                                                                         *)
(* A handler runs one SQL statement; an action is a handler.  A record     *)
(* takes the next number as its id; its other columns are left out, but    *)
(* for the vehicle's vtv_due_date, which has an operation of its own.      *)
(***************************************************************************)
EXTENDS Integers, FiniteSets, Fleet

CONSTANTS
  Cars,        \* real vehicles, each with one plate
  Dates,       \* dates for the VTV inspection
  MaxRecords   \* how many records are ever inserted

ASSUME MaxRecordsAssumption == MaxRecords \in Nat

VARIABLES
  vehicles,    \* fleet_vehicles, UNIQUE(org_id, plate)
  records,     \* maintenance_records and fuel_logs
  nextId,
  recordCall   \* the last call and how it was answered

recordsVars == <<vehicles, records, nextId, recordCall>>

\* The ways to write a plate: with or without a separator, in either case
Spellings == [car: Cars, dashed: BOOLEAN, lower: BOOLEAN]

ToUpper(s) == [s EXCEPT !.lower = FALSE]

\* What FleetAddVehicle makes of the plate
Normalized(s) == [car |-> s.car, dashed |-> FALSE, lower |-> FALSE]

Kinds == {"maintenance", "fuel"}

\* Every stored plate is in upper case, and a vehicle's has no separator
RecordsTypeOK ==
  /\ vehicles \subseteq [org: Orgs, vtv: Dates \union {None},
                         plate: [car: Cars, dashed: {FALSE}, lower: {FALSE}]]
  /\ records \subseteq [id: 1..MaxRecords, kind: Kinds, org: Orgs,
                        plate: [car: Cars, dashed: BOOLEAN, lower: {FALSE}]]
  /\ nextId \in 1..(MaxRecords + 1)
  /\ recordCall \in [op: {"none", "addVehicle", "removeVehicle", "clearVehicles", "vtv",
                          "addRecord", "removeRecord", "clearMaintenance"},
                     org: Orgs \union {None}, car: Cars \union {None},
                     reply: {"ok", "notFound"}]

RecordCalled(op, o, c, reply) ==
  recordCall' = [op |-> op, org |-> o, car |-> c, reply |-> reply]

\* The rows of fleet_vehicles that WHERE org_id = o AND plate = s selects
Selected(o, s) == {v \in vehicles : v.org = o /\ v.plate = s}

AnswerFor(rows) == IF rows = {} THEN "notFound" ELSE "ok"

\* ListMaintenance and ListFuelLogs without a plate
ListAll(k, o) == {r \in records : r.kind = k /\ r.org = o}

-----------------------------------------------------------------------------
RecordsInit ==
  /\ vehicles = {} /\ records = {}
  /\ nextId = 1
  /\ recordCall = [op |-> "none", org |-> None, car |-> None, reply |-> "ok"]

(* Slip: the plate is only upper-cased, as the other handlers do. *)
AddVehicleUpperOnly(o, s) ==
  LET same == Selected(o, ToUpper(s))
  IN /\ vehicles' = vehicles \union
          (IF same # {} THEN {}
           ELSE {[org |-> o, plate |-> ToUpper(s), vtv |-> None]})
     /\ RecordCalled("addVehicle", o, s.car, "ok")
     /\ UNCHANGED <<records, nextId>>

(* Slip: ON CONFLICT replaces the row with what was sent. *)
AddVehicleReplaces(o, s) ==
  /\ vehicles' = (vehicles \ Selected(o, Normalized(s))) \union
                   {[org |-> o, plate |-> Normalized(s), vtv |-> None]}
  /\ RecordCalled("addVehicle", o, s.car, "ok")
  /\ UNCHANGED <<records, nextId>>

\* FleetAddVehicle: ON CONFLICT (org_id, plate) DO UPDATE leaves vtv_due_date
AddVehicle(o, s) ==
  LET same == Selected(o, Normalized(s))
  IN /\ vehicles' = vehicles \union
          (IF same # {} THEN {}
           ELSE {[org |-> o, plate |-> Normalized(s), vtv |-> None]})
     /\ RecordCalled("addVehicle", o, s.car, "ok")
     /\ UNCHANGED <<records, nextId>>

\* FleetRemoveVehicle: the records by that plate stay
RemoveVehicle(o, s) ==
  LET rows == Selected(o, ToUpper(s))
  IN /\ vehicles' = vehicles \ rows
     /\ RecordCalled("removeVehicle", o, s.car, AnswerFor(rows))
     /\ UNCHANGED <<records, nextId>>

\* FleetClearVehicles
ClearVehicles(o) ==
  /\ vehicles' = {v \in vehicles : v.org # o}
  /\ RecordCalled("clearVehicles", o, None, "ok")
  /\ UNCHANGED <<records, nextId>>

\* FleetUpdateVehicleVTV: an absent or empty date sets NULL
UpdateVehicleVTV(o, s, date) ==
  LET rows == Selected(o, ToUpper(s))
  IN /\ vehicles' = (vehicles \ rows) \union {[v EXCEPT !.vtv = date] : v \in rows}
     /\ RecordCalled("vtv", o, s.car, AnswerFor(rows))
     /\ UNCHANGED <<records, nextId>>

\* No vehicle need have the plate
AddRecord(k, o, s) ==
  /\ nextId <= MaxRecords
  /\ records' = records \union
       {[id |-> nextId, kind |-> k, org |-> o, plate |-> ToUpper(s)]}
  /\ nextId' = nextId + 1
  /\ RecordCalled("addRecord", o, s.car, "ok")
  /\ UNCHANGED vehicles

\* FleetAddMaintenance
AddMaintenance(o, s) == AddRecord("maintenance", o, s)

\* FleetAddFuel
AddFuel(o, s) == AddRecord("fuel", o, s)

(* Slip: the id is looked up without the organization. *)
RemoveRecordOfAny(k, o, id) ==
  LET rows == {r \in records : r.kind = k /\ r.id = id}
  IN /\ records' = records \ rows
     /\ RecordCalled("removeRecord", o, None, AnswerFor(rows))
     /\ UNCHANGED <<vehicles, nextId>>

RemoveRecord(k, o, id) ==
  LET rows == {r \in records : r.kind = k /\ r.org = o /\ r.id = id}
  IN /\ records' = records \ rows
     /\ RecordCalled("removeRecord", o, None, AnswerFor(rows))
     /\ UNCHANGED <<vehicles, nextId>>

\* FleetRemoveMaintenance
RemoveMaintenance(o, id) == RemoveRecord("maintenance", o, id)

\* FleetRemoveFuel
RemoveFuel(o, id) == RemoveRecord("fuel", o, id)

\* FleetClearMaintenance: fuel logs have no such call
ClearMaintenance(o) ==
  /\ records' = records \ ListAll("maintenance", o)
  /\ RecordCalled("clearMaintenance", o, None, "ok")
  /\ UNCHANGED <<vehicles, nextId>>

RecordCall(o) ==
  \/ \E s \in Spellings :
       \/ AddVehicle(o, s)
       \/ RemoveVehicle(o, s)
       \/ AddMaintenance(o, s) \/ AddFuel(o, s)
       \/ \E date \in Dates \union {None} : UpdateVehicleVTV(o, s, date)
  \/ ClearVehicles(o)
  \/ \E id \in 1..MaxRecords : RemoveMaintenance(o, id) \/ RemoveFuel(o, id)
  \/ ClearMaintenance(o)

RecordsNext == \E o \in Orgs : RecordCall(o)

RecordsSpec == RecordsInit /\ [][RecordsNext]_recordsVars

-----------------------------------------------------------------------------
\* An organization never has two rows for one vehicle, however its plate was
\* written in the calls that added it (the UNIQUE constraint compares text), so
\* that when a removal is answered with "removed" the vehicle is gone.
OneRowPerVehicle ==
  /\ \A v, w \in vehicles :
       v.org = w.org /\ v.plate.car = w.plate.car => v = w
  /\ recordCall.op = "removeVehicle" /\ recordCall.reply = "ok" =>
       ~ \E v \in vehicles : v.org = recordCall.org /\ v.plate.car = recordCall.car

\* The inspection date of a vehicle is lost only with the vehicle: importing the
\* same vehicle again, however its plate is written, keeps it.
ReAddKeepsVTV ==
  [][\A v \in vehicles :
       \/ v \in vehicles'
       \/ /\ recordCall'.op \in {"removeVehicle", "clearVehicles", "vtv"}
          /\ recordCall'.org = v.org
          /\ recordCall'.op # "clearVehicles" => recordCall'.car = v.plate.car]_recordsVars

\* A call touches the vehicles and records of the organization whose token it
\* carries and those of no other, and records survive every call about vehicles.
OnlyOwnRecords ==
  [][/\ \A o \in Orgs \ {recordCall'.org} :
          /\ {v \in vehicles : v.org = o} = {v \in vehicles' : v.org = o}
          /\ {r \in records : r.org = o} = {r \in records' : r.org = o}
     /\ records' # records => recordCall'.op \in {"addRecord", "removeRecord", "clearMaintenance"}]_recordsVars
=============================================================================
